---- MODULE Spec2Model ----
(***************************************************************************)
(* Chef-Guard: the cookbook-upload gate.                                   *)
(*                                                                         *)
(* The specifications that share this module:                              *)
(*   Spec         the processCookbook handler, one action per call the     *)
(*                handler makes (frozen check, archive build, dependency   *)
(*                check, source resolution, lint checks, comparison,       *)
(*                tag/publish, forward);                                   *)
(*   SpecCompare  compareCookbooks applied to bounded file-hash maps and   *)
(*                ignore files;                                            *)
(*   SpecDeps     parseCookbookVersions and checkDependencies applied to   *)
(*                every constraint map, for both callers;                  *)
(*   SpecParse    parseCookbookVersions applied to bounded strings;        *)
(*   SpecUploads  two uploads handled at once, writing below               *)
(*                cfg.Default.Tempdir;                                     *)
(*   SpecSync     syncedGitUpdate run by two goroutines, with the lazily   *)
(*                created MultiSyncer;                                     *)
(*   SpecReload   loadConfig replacing cfg while a handler reads it;       *)
(*   SpecIgnore   GitIgnore applied to bounded ignore files;               *)
(*   SpecChange   the processChange handler of the other object types;     *)
(*   SpecGit      syncedGitUpdate past the lock: remarshalConfig,          *)
(*                writeConfigToGit and mailChanges;                        *)
(*   SpecMulti    one MultiSyncer with goroutines calling Lock and         *)
(*                Unlock, under a fair scheduler;                          *)
(*   SpecSyncFair SpecSync under a fair scheduler;                         *)
(*   SpecTag      two uploads of one cookbook version tagging and          *)
(*                publishing at the same time.                             *)
(***************************************************************************)
EXTENDS Integers, Sequences, FiniteSets, TLC

VARIABLES
    pc,             \* position of the handler / of the comparison run
    req,            \* the request: method, effective Mode, CommitChanges
    cg,             \* fields of the ChefGuard struct of the request
    log,            \* the calls made so far, in order
    resp,           \* what the caller received
    FileHashes,     \* cg.FileHashes: candidate path -> hash
    sh,             \* the source bundle's path -> hash
    GitIgnoreFile,  \* cg.GitIgnoreFile in force during the comparison
    ChefIgnoreFile, \* cg.ChefIgnoreFile in force during the comparison
    cmp,            \* the result of compareCookbooks
    cfg,            \* the configuration the request has read: the number of
                    \* organizations in cfg.Community.Forks, 0 until it is read;
                    \* under a reload the package variable cfg itself
    dep,            \* a dependency check on its own: inputs and result
    tp,             \* what tagAndPublishCookbook left: the backend type an
                    \* untag call went to, tag v<version> in the source
                    \* repository, and the parts of the error it returned
    disk,           \* the files under cfg.Default.Tempdir, each one
                    \* <<directory, path, hash of the content>>
    uploads,        \* the uploads in flight at the same time: per request its
                    \* user, cookbook, position and what it wrote and linted
    gitSync,        \* the global ms, the MultiSyncers created, their locks
                    \* and the goroutines running syncedGitUpdate
    loader,         \* the signal handler's loadConfig: its position, the
                    \* configuration in force before and the one it parsed
    ign,            \* a call of pathspec.GitIgnore on its own: the name and
                    \* what the call returned
    repo,           \* one call of syncedGitUpdate past the lock: its action
                    \* and body, the target path in the git repository and
                    \* what the call got
    multi,          \* one MultiSyncer: the tokens its run loop has a channel
                    \* for, the channels that hold their element, and the
                    \* goroutines calling Lock and Unlock
    tagging         \* tag v<version> of the source repository and the uploads
                    \* that tag and publish the same cookbook version

vars == <<pc, req, cfg, cg, log, resp, FileHashes, sh, GitIgnoreFile, ChefIgnoreFile, cmp, dep, tp, disk,
          uploads, gitSync, loader, ign, repo, multi, tagging>>

-----------------------------------------------------------------------------
(* Bounds *)

MaxGitPatterns == 2
MaxChefPatterns == 1
MaxForks == 2
MaxGitOrgs == 2
MaxPrefixLen == 2
MaxVersionLen == 5
MaxIgnoreLines == 3

-----------------------------------------------------------------------------
(* Status codes *)

StatusConflict == 409
StatusPreconditionFailed == 412
StatusBadGateway == 502

-----------------------------------------------------------------------------
(* Paths, hashes and file-hash maps.  A path is its sequence of segments.  *)

MetadataJSON == <<"metadata.json">>
MetadataRB == <<"metadata.rb">>
Paths == {MetadataJSON, <<"a.rb">>, <<"extra.rb">>, <<"spec", "c.rb">>}
Hashes == {"h1", "h2"}

\* every map from a subset of Paths to hashes
HashMaps == UNION {[D -> Hashes] : D \in SUBSET Paths}

\* delete(m, file) left out
MapDeleteOmitted(m, file) == m

\* delete(m, file)
MapDelete(m, file) == [f \in (DOMAIN m) \ {file} |-> m[f]]

-----------------------------------------------------------------------------
(* Ignore files.  A pattern is what parsePattern produces: the regular     *)
(* expression (given by the names it matches, or not compilable) and the   *)
(* Include flag of a leading "!".                                          *)

GitPatterns ==
    { [names |-> {<<"extra.rb">>}, valid |-> TRUE, Include |-> FALSE],
      [names |-> {<<"extra.rb">>}, valid |-> TRUE, Include |-> TRUE],
      [names |-> {}, valid |-> FALSE, Include |-> FALSE] }

ChefPatterns ==
    { [names |-> {<<"a.rb">>}, valid |-> TRUE, Include |-> FALSE],
      [names |-> {}, valid |-> FALSE, Include |-> FALSE] }

SeqsUpTo(S, n) == UNION {[1..k -> S] : k \in 0..n}

GitIgnoreFiles == SeqsUpTo(GitPatterns, MaxGitPatterns)
ChefIgnoreFiles == SeqsUpTo(ChefPatterns, MaxChefPatterns)

\* the scan without the test of the "!" prefix
RECURSIVE GitIgnoreFromNoNegation(_, _, _, _)
GitIgnoreFromNoNegation(content, i, name, ignore) ==
    IF i > Len(content) THEN [ignore |-> ignore, err |-> FALSE]
    ELSE LET p == content[i] IN
         IF ~p.valid THEN [ignore |-> ignore, err |-> TRUE]
         ELSE IF name \in p.names
              THEN GitIgnoreFromNoNegation(content, i + 1, name, TRUE)
              ELSE GitIgnoreFromNoNegation(content, i + 1, name, ignore)

\* pathspec.GitIgnore: scan the lines in order; a pattern that does not
\* compile returns the error, a matching "!" pattern returns false at once,
\* any other match sets ignore.
RECURSIVE GitIgnoreFrom(_, _, _, _)
GitIgnoreFrom(content, i, name, ignore) ==
    IF i > Len(content) THEN [ignore |-> ignore, err |-> FALSE]
    ELSE LET p == content[i] IN
         IF ~p.valid THEN [ignore |-> ignore, err |-> TRUE]
         ELSE IF name \in p.names
              THEN IF p.Include THEN [ignore |-> FALSE, err |-> FALSE]
                   ELSE GitIgnoreFrom(content, i + 1, name, TRUE)
              ELSE GitIgnoreFrom(content, i + 1, name, ignore)

GitIgnore(content, name) == GitIgnoreFrom(content, 1, name, FALSE)

\* pathspec.ChefIgnore: patterns in file order, the last match decides, a
\* malformed pattern is a parse error.
RECURSIVE ChefIgnoreFrom(_, _, _, _)
ChefIgnoreFrom(content, i, name, ignore) ==
    IF i > Len(content) THEN [ignore |-> ignore, err |-> FALSE]
    ELSE LET p == content[i] IN
         IF ~p.valid THEN [ignore |-> FALSE, err |-> TRUE]
         ELSE IF name \in p.names
              THEN ChefIgnoreFrom(content, i + 1, name, ~p.Include)
              ELSE ChefIgnoreFrom(content, i + 1, name, ignore)

ChefIgnore(content, name) == ChefIgnoreFrom(content, 1, name, FALSE)

\* strings.HasPrefix(file, "spec/")
HasSpecPrefix(file) == Len(file) > 1 /\ file[1] = "spec"

\* the default files without metadata.json
IsDefaultFileWithoutManifest(file) == file = MetadataRB \/ HasSpecPrefix(file)

IsDefaultFile(file) ==
    file = MetadataRB \/ file = MetadataJSON \/ HasSpecPrefix(file)

\* cg.ignoreThisFile(file, ignoreDefaultFiles)
ignoreThisFile(git, chef, file, ignoreDefaultFiles) ==
    IF ignoreDefaultFiles /\ IsDefaultFile(file)
    THEN [ignore |-> TRUE, err |-> FALSE]
    ELSE LET g == GitIgnore(git, file) IN
         IF g.ignore \/ g.err THEN g
         ELSE LET c == ChefIgnore(chef, file) IN
              IF c.ignore \/ c.err THEN c
              ELSE [ignore |-> FALSE, err |-> FALSE]

-----------------------------------------------------------------------------
(* compareCookbooks.  Go ranges over a map in an unspecified order, so     *)
(* each loop yields the set of outcomes over all visiting orders.          *)

\* first loop, over cg.FileHashes
RECURSIVE CandidateLoop(_, _, _, _, _, _, _)
CandidateLoop(rem, fh, src, git, chef, changed, missing) ==
    IF rem = {}
    THEN {[err |-> FALSE, sh |-> src, changed |-> changed, missing |-> missing]}
    ELSE UNION {
        LET rest == rem \ {file} IN
        IF file = MetadataJSON
        THEN CandidateLoop(rest, fh, MapDelete(src, file), git, chef, changed, missing)
        ELSE IF file \in DOMAIN src
        THEN IF fh[file] = src[file]
             THEN CandidateLoop(rest, fh, MapDelete(src, file), git, chef, changed, missing)
             ELSE CandidateLoop(rest, fh, src, git, chef, changed \cup {file}, missing)
        ELSE LET ig == ignoreThisFile(git, chef, file, TRUE) IN
             IF ig.err
             THEN {[err |-> TRUE, sh |-> src, changed |-> changed, missing |-> missing]}
             ELSE IF ~ig.ignore
                  THEN CandidateLoop(rest, fh, src, git, chef, changed, missing \cup {file})
                  ELSE CandidateLoop(rest, fh, src, git, chef, changed, missing)
        : file \in rem }

\* last loop, over what is left of sh
RECURSIVE SourceLoop(_, _, _, _)
SourceLoop(rem, git, chef, missing) ==
    IF rem = {}
    THEN {[err |-> FALSE, missing |-> missing]}
    ELSE UNION {
        LET ig == ignoreThisFile(git, chef, file, TRUE) IN
        IF ig.err
        THEN {[err |-> TRUE, missing |-> missing]}
        ELSE IF ~ig.ignore
             THEN SourceLoop(rem \ {file}, git, chef, missing \cup {file})
             ELSE SourceLoop(rem \ {file}, git, chef, missing)
        : file \in rem }

CmpOK == [code |-> 0, kind |-> "ok", files |-> {}]
CmpFail(kind, files) == [code |-> StatusPreconditionFailed, kind |-> kind, files |-> files]
CmpError == [code |-> StatusBadGateway, kind |-> "error", files |-> {}]

\* the decisions after the first loop, extra files tested before changed ones
AfterCandidateLoopExtraFirst(r, git, chef) ==
    IF r.err THEN {CmpError}
    ELSE IF r.missing # {} THEN {CmpFail("extra", r.missing)}
    ELSE IF r.changed # {} THEN {CmpFail("changed", r.changed)}
    ELSE IF DOMAIN r.sh # {}
         THEN { IF s.err THEN CmpError
                ELSE IF s.missing # {} THEN CmpFail("missing", s.missing)
                ELSE CmpOK
                : s \in SourceLoop(DOMAIN r.sh, git, chef, {}) }
         ELSE {CmpOK}

\* the decisions after the first loop, the list of extra files carried into
\* the last loop instead of being returned
AfterCandidateLoopOneList(r, git, chef) ==
    IF r.err THEN {CmpError}
    ELSE IF r.changed # {} THEN {CmpFail("changed", r.changed)}
    ELSE IF DOMAIN r.sh # {}
         THEN { IF s.err THEN CmpError
                ELSE IF s.missing # {} THEN CmpFail("missing", s.missing)
                ELSE CmpOK
                : s \in SourceLoop(DOMAIN r.sh, git, chef, r.missing) }
         ELSE IF r.missing # {} THEN {CmpFail("extra", r.missing)}
         ELSE {CmpOK}

\* the decisions after the first loop
AfterCandidateLoop(r, git, chef) ==
    IF r.err THEN {CmpError}
    ELSE IF r.changed # {} THEN {CmpFail("changed", r.changed)}
    ELSE IF r.missing # {} THEN {CmpFail("extra", r.missing)}
    ELSE IF DOMAIN r.sh # {}
         THEN { IF s.err THEN CmpError
                ELSE IF s.missing # {} THEN CmpFail("missing", s.missing)
                ELSE CmpOK
                : s \in SourceLoop(DOMAIN r.sh, git, chef, {}) }
         ELSE {CmpOK}

\* the set of results compareCookbooks can return for these inputs
compareCookbooks(fh, src, git, chef) ==
    UNION { AfterCandidateLoop(r, git, chef)
            : r \in CandidateLoop(DOMAIN fh, fh, src, git, chef, {}, {}) }

-----------------------------------------------------------------------------
(* Collaborator answers and the functions that interpret them.             *)

\* values of the handler's state before they are set
NoCmp == [code |-> 0, kind |-> "none", files |-> {}]
NoSource == [nil |-> TRUE, artifact |-> FALSE, private |-> FALSE, tagged |-> FALSE,
             LocationType |-> "", gitConfig |-> 0]
NoRequest == [Method |-> "", Mode |-> "", CommitChanges |-> FALSE]
NoCookbook == [files |-> [f \in {} |-> "h1"], gitignore |-> <<>>, chefignore |-> <<>>]
NoChefGuard == [ForcedUpload |-> FALSE, Frozen |-> FALSE, Dependencies |-> FALSE,
                SourceCookbook |-> NoSource, cleanup |-> FALSE, Cookbook |-> NoCookbook]
NoResponse == [code |-> 0, forwarded |-> FALSE]
EmptyMap == [f \in {} |-> "h1"]
NoTagAndPublish == [Type |-> "", PublishCookbook |-> FALSE, blackListed |-> FALSE,
                    tagExists |-> FALSE,
                    created |-> FALSE, errText |-> {}]
NoSync == [ms |-> 0, syncers |-> 0, store |-> {}, full |-> {}, g |-> <<>>]
NoIgnore == [name |-> <<>>, ignore |-> FALSE, err |-> FALSE]
NoMulti == [store |-> {}, full |-> {}, c |-> <<>>]
NoTagging == [Type |-> "", exists |-> FALSE, owner |-> 0, pushed |-> FALSE, r |-> <<>>]
NoRepo == [action |-> "", body |-> <<>>, target |-> <<>>, MailChanges |-> FALSE,
           config |-> <<>>, sha |-> "", err |-> FALSE]
NoLoader == [pc |-> "", old |-> <<>>, tmpConfig |-> <<>>, copied |-> {}, failed |-> ""]
NoDep == [caller |-> "", constraints |-> <<>>, chef |-> <<>>, parsed |-> <<>>,
          result |-> [code |-> 0, errors |-> {}, queries |-> {}]]

Event(op, n, res) == [op |-> op, n |-> n, res |-> res]

\* chefClient.GetCookbookVersion: the version is frozen, exists unfrozen, is
\* not found, or the call fails
ChefAnswers == {"frozen", "unfrozen", "notfound", "error"}

\* cg.cookbookFrozen(name, version) taking a version that is not found for
\* a failed lookup
cookbookFrozenNotFoundFails(answer) ==
    IF answer \in {"error", "notfound"} THEN [frozen |-> TRUE, err |-> TRUE]
    ELSE [frozen |-> (answer = "frozen"), err |-> FALSE]

\* cg.cookbookFrozen(name, version)
cookbookFrozen(answer) ==
    IF answer = "error" THEN [frozen |-> TRUE, err |-> TRUE]
    ELSE IF answer = "notfound" THEN [frozen |-> FALSE, err |-> FALSE]
    ELSE [frozen |-> (answer = "frozen"), err |-> FALSE]

\* cg.checkCookbookFrozen() without the test of the frozen flag
checkCookbookFrozenErrorsOnly(answer) ==
    IF cookbookFrozen(answer).err THEN StatusBadGateway ELSE 0

\* cg.checkCookbookFrozen(): the error code, 0 when there is no error
checkCookbookFrozen(answer) ==
    LET r == cookbookFrozen(answer) IN
    IF r.err THEN StatusBadGateway
    ELSE IF r.frozen THEN StatusPreconditionFailed
    ELSE 0

\* what one version-control organization holds for the cookbook: the tag
\* v<version>, only a default branch, no repository, a failing TagExists
\* call, or a failing GetArchiveLink call (on an untagged repository)
GitOrgStates == {"tagged", "untagged", "norepo", "tagerror", "linkerror"}

\* searchGitForCookbook without the test of taggedOnly
searchGitForCookbookAnyBranch(state, taggedOnly) ==
    IF state = "tagerror" THEN [link |-> FALSE, tagged |-> FALSE, err |-> TRUE]
    ELSE LET tagged == (state = "tagged") IN
         IF state = "linkerror" THEN [link |-> FALSE, tagged |-> tagged, err |-> TRUE]
         ELSE IF state = "norepo" THEN [link |-> FALSE, tagged |-> tagged, err |-> FALSE]
         ELSE [link |-> TRUE, tagged |-> tagged, err |-> FALSE]

\* searchGitForCookbook(org, repo, tag, taggedOnly)
searchGitForCookbook(state, taggedOnly) ==
    IF state = "tagerror" THEN [link |-> FALSE, tagged |-> FALSE, err |-> TRUE]
    ELSE LET tagged == (state = "tagged") IN
         IF taggedOnly /\ ~tagged THEN [link |-> FALSE, tagged |-> tagged, err |-> FALSE]
         ELSE IF state = "linkerror" THEN [link |-> FALSE, tagged |-> tagged, err |-> TRUE]
         ELSE IF state = "norepo" THEN [link |-> FALSE, tagged |-> tagged, err |-> FALSE]
         ELSE [link |-> TRUE, tagged |-> tagged, err |-> FALSE]

GitSource(tagged, gitConfig) ==
    [nil |-> FALSE, artifact |-> FALSE, private |-> FALSE, tagged |-> tagged,
     LocationType |-> "git", gitConfig |-> gitConfig]

\* searchGit going on to the next organization after a failed call
RECURSIVE searchGitFromSkipFailed(_, _, _, _, _)
searchGitFromSkipFailed(gitConfigs, i, tagsOnly, op, events) ==
    IF i > Len(gitConfigs) THEN [sc |-> NoSource, err |-> FALSE, events |-> events]
    ELSE LET r == searchGitForCookbook(gitConfigs[i], tagsOnly)
             ev == Append(events, Event(op, i, gitConfigs[i]))
         IN IF r.link /\ ~r.err THEN [sc |-> GitSource(r.tagged, i), err |-> FALSE, events |-> ev]
            ELSE searchGitFromSkipFailed(gitConfigs, i + 1, tagsOnly, op, ev)

\* searchGit(gitConfigs, name, version, tagsOnly): gitConfigs[i] is what
\* the i-th configured organization holds; op names the caller in the log
RECURSIVE searchGitFrom(_, _, _, _, _)
searchGitFrom(gitConfigs, i, tagsOnly, op, events) ==
    IF i > Len(gitConfigs) THEN [sc |-> NoSource, err |-> FALSE, events |-> events]
    ELSE LET r == searchGitForCookbook(gitConfigs[i], tagsOnly)
             ev == Append(events, Event(op, i, gitConfigs[i]))
         IN IF r.err THEN [sc |-> NoSource, err |-> TRUE, events |-> ev]
            ELSE IF r.link THEN [sc |-> GitSource(r.tagged, i), err |-> FALSE, events |-> ev]
            ELSE searchGitFrom(gitConfigs, i + 1, tagsOnly, op, ev)

searchGit(gitConfigs, tagsOnly, op) == searchGitFrom(gitConfigs, 1, tagsOnly, op, <<>>)

\* the universe of a supermarket: it lists the version, lists the name but
\* not the version, does not list the name, or a call fails
SupermarketAnswers == {"hit", "version-unknown", "absent", "error"}

SupermarketSource ==
    [nil |-> FALSE, artifact |-> TRUE, private |-> FALSE, tagged |-> FALSE,
     LocationType |-> "supermarket", gitConfig |-> 0]

\* searchSupermarket(supermarket, name, version)
searchSupermarket(answer) ==
    IF answer = "error" THEN [sc |-> NoSource, errCode |-> StatusBadGateway, err |-> TRUE]
    ELSE IF answer = "hit" THEN [sc |-> SupermarketSource, errCode |-> 0, err |-> FALSE]
    ELSE IF answer = "version-unknown" THEN [sc |-> NoSource, errCode |-> 1, err |-> FALSE]
    ELSE [sc |-> NoSource, errCode |-> 0, err |-> FALSE]

SearchResult(sc, errCode, err, events) ==
    [sc |-> sc, errCode |-> errCode, err |-> err, events |-> events]

\* searchCommunityCookbooks without the fork search
searchCommunityCookbooksNoForks(answer, forks) ==
    LET r == searchSupermarket(answer)
        ev == <<Event("searchSupermarket:community", 0, answer)>>
    IN IF r.err THEN SearchResult(NoSource, r.errCode, TRUE, ev)
       ELSE IF ~r.sc.nil THEN SearchResult([r.sc EXCEPT !.private = FALSE], 0, FALSE, ev)
       ELSE IF r.errCode = 1
       THEN SearchResult(NoSource, StatusPreconditionFailed, TRUE, ev)
       ELSE SearchResult(NoSource, 0, FALSE, ev)

\* searchCommunityCookbooks going on to the private search when the version
\* is unknown and no fork has it
searchCommunityCookbooksFallThrough(answer, forks) ==
    LET r == searchSupermarket(answer)
        ev == <<Event("searchSupermarket:community", 0, answer)>>
    IN IF r.err THEN SearchResult(NoSource, r.errCode, TRUE, ev)
       ELSE IF ~r.sc.nil THEN SearchResult([r.sc EXCEPT !.private = FALSE], 0, FALSE, ev)
       ELSE IF r.errCode = 1
       THEN LET g == IF Len(forks) > 0 THEN searchGit(forks, TRUE, "searchGit:forks")
                     ELSE [sc |-> NoSource, err |-> FALSE, events |-> <<>>]
            IN IF g.err THEN SearchResult(NoSource, StatusBadGateway, TRUE, ev \o g.events)
               ELSE IF ~g.sc.nil
               THEN SearchResult([g.sc EXCEPT !.private = FALSE], 0, FALSE, ev \o g.events)
               ELSE SearchResult(NoSource, 0, FALSE, ev \o g.events)
       ELSE SearchResult(NoSource, 0, FALSE, ev)

\* searchCommunityCookbooks(name, version); forks is what the organizations
\* of cfg.Community.Forks hold, empty when no fork is configured
searchCommunityCookbooks(answer, forks) ==
    LET r == searchSupermarket(answer)
        ev == <<Event("searchSupermarket:community", 0, answer)>>
    IN IF r.err THEN SearchResult(NoSource, r.errCode, TRUE, ev)
       ELSE IF ~r.sc.nil THEN SearchResult([r.sc EXCEPT !.private = FALSE], 0, FALSE, ev)
       ELSE IF r.errCode = 1
       THEN LET g == IF Len(forks) > 0 THEN searchGit(forks, TRUE, "searchGit:forks")
                     ELSE [sc |-> NoSource, err |-> FALSE, events |-> <<>>]
            IN IF g.err THEN SearchResult(NoSource, StatusBadGateway, TRUE, ev \o g.events)
               ELSE IF ~g.sc.nil
               THEN SearchResult([g.sc EXCEPT !.private = FALSE], 0, FALSE, ev \o g.events)
               ELSE SearchResult(NoSource, StatusPreconditionFailed, TRUE, ev \o g.events)
       ELSE SearchResult(NoSource, 0, FALSE, ev)

\* the git half of searchPrivateCookbooks
searchPrivateGit(SearchGit, gitConfigs, ev) ==
    IF SearchGit
    THEN LET g == searchGit(gitConfigs, FALSE, "searchGit:orgs")
         IN IF g.err THEN SearchResult(NoSource, StatusBadGateway, TRUE, ev \o g.events)
            ELSE IF ~g.sc.nil
            THEN SearchResult([g.sc EXCEPT !.private = TRUE], 0, FALSE, ev \o g.events)
            ELSE SearchResult(NoSource, 0, FALSE, ev \o g.events)
    ELSE SearchResult(NoSource, 0, FALSE, ev)

\* searchPrivateCookbooks without the return after a private registry hit
searchPrivateCookbooksNoReturn(Server, answer, SearchGit, gitConfigs) ==
    IF Server
    THEN LET r == searchSupermarket(answer)
             ev == <<Event("searchSupermarket:private", 0, answer)>>
         IN IF r.err THEN SearchResult(NoSource, r.errCode, TRUE, ev)
            ELSE LET g == searchPrivateGit(SearchGit, gitConfigs, ev)
                 IN IF g.err \/ ~g.sc.nil \/ r.sc.nil THEN g
                    ELSE SearchResult([r.sc EXCEPT !.private = TRUE], 0, FALSE, g.events)
    ELSE searchPrivateGit(SearchGit, gitConfigs, <<>>)

\* searchPrivateCookbooks(chefOrg, name, version); Server says whether
\* cfg.Supermarket.Server is set, SearchGit is the organization's SearchGit
searchPrivateCookbooks(Server, answer, SearchGit, gitConfigs) ==
    IF Server
    THEN LET r == searchSupermarket(answer)
             ev == <<Event("searchSupermarket:private", 0, answer)>>
         IN IF r.err THEN SearchResult(NoSource, r.errCode, TRUE, ev)
            ELSE IF ~r.sc.nil THEN SearchResult([r.sc EXCEPT !.private = TRUE], 0, FALSE, ev)
            ELSE searchPrivateGit(SearchGit, gitConfigs, ev)
    ELSE searchPrivateGit(SearchGit, gitConfigs, <<>>)

\* the same part of cg.searchSourceCookbook() with the not-found error
\* reported as a backend fault
searchSourceCookbookPrivateBadGateway(Server, answer, SearchGit, gitConfigs) ==
    LET r == searchPrivateCookbooks(Server, answer, SearchGit, gitConfigs)
    IN IF r.err THEN r
       ELSE IF ~r.sc.nil THEN r
       ELSE SearchResult(NoSource, StatusBadGateway, TRUE, r.events)

\* cg.searchSourceCookbook(), the part after searchCommunityCookbooks found
\* neither a source nor an error
searchSourceCookbookPrivate(Server, answer, SearchGit, gitConfigs) ==
    LET r == searchPrivateCookbooks(Server, answer, SearchGit, gitConfigs)
    IN IF r.err THEN r
       ELSE IF ~r.sc.nil THEN r
       ELSE SearchResult(NoSource, StatusPreconditionFailed, TRUE, r.events)

-----------------------------------------------------------------------------
(* Dependencies.  A constraint is a string, a sequence of characters.      *)

DepNames == {"bar", "baz"}

\* the constraints of the cookbooks at hand: an operator, or none, in front
\* of a version of three or of two components
ConstraintOps == {<<>>, <<"=", " ">>, <<">", "=", " ">>, <<"~", ">", " ">>}
ConstraintVersions == {<<"2", ".", "0", ".", "0">>, <<"0", ".", "0", ".", "0">>, <<"2", ".", "0">>}
ConstraintStrings == {op \o ver : op \in ConstraintOps, ver \in ConstraintVersions}

\* the cookbook's metadata dependencies: name -> constraint
DependencyMaps == UNION {[D -> ConstraintStrings] : D \in SUBSET DepNames}

\* \d
IsDigit(c) == c \in {"0", "1", "2", "3", "4", "5", "6", "7", "8", "9"}

\* \d+\.\d+\.\d+$ from position i on: k is the component being read,
\* digits says whether it has a digit yet
RECURSIVE MatchVersion(_, _, _, _)
MatchVersion(str, i, k, digits) ==
    IF i > Len(str) THEN k = 3 /\ digits
    ELSE IF IsDigit(str[i]) THEN MatchVersion(str, i + 1, k, TRUE)
    ELSE IF str[i] = "." /\ digits /\ k < 3 THEN MatchVersion(str, i + 1, k + 1, FALSE)
    ELSE FALSE

\* strings.HasPrefix(str, prefix)
HasPrefix(str, prefix) ==
    Len(str) >= Len(prefix) /\ SubSeq(str, 1, Len(prefix)) = prefix

\* re.FindStringSubmatch(constraint) for ^(?:= )?(\d+\.\d+\.\d+)$: whether
\* it matches and, if so, the submatch res[1]
FindStringSubmatch(constraint) ==
    LET start == IF HasPrefix(constraint, <<"=", " ">>) THEN 3 ELSE 1
    IN IF MatchVersion(constraint, start, 1, FALSE)
       THEN [match |-> TRUE, version |-> SubSeq(constraint, start, Len(constraint))]
       ELSE [match |-> FALSE, version |-> <<>>]

BAD == <<"B", "A", "D">>

\* the regular expression with the "= " prefix made mandatory
parseConstraintEqualsRequired(constraint) ==
    IF HasPrefix(constraint, <<"=", " ">>) /\ FindStringSubmatch(constraint).match
    THEN FindStringSubmatch(constraint).version
    ELSE BAD \o constraint

\* one entry of parseCookbookVersions: the version the regular expression
\* captures, anything else is kept whole behind "BAD"
parseConstraint(constraint) ==
    LET res == FindStringSubmatch(constraint)
    IN IF res.match THEN res.version ELSE BAD \o constraint

\* parseCookbookVersions(constraints): name -> list of versions
parseCookbookVersions(constraints) ==
    [name \in DOMAIN constraints |-> <<parseConstraint(constraints[name])>>]

\* the test without the malformed form of the placeholder
IsPlaceholderWellFormedOnly(version) == version = <<"0", ".", "0", ".", "0">>

\* version == "0.0.0" || version == "BAD>= 0.0.0"
IsPlaceholder(version) ==
    \/ version = <<"0", ".", "0", ".", "0">>
    \/ version = BAD \o <<">", "=", " ", "0", ".", "0", ".", "0">>

\* one error line of checkDependencies
DepError(kind, name, v) == [kind |-> kind, name |-> name, version |-> v]

\* one call of cg.cookbookFrozen(name, version) made by checkDependencies
DepQuery(name, v) == [name |-> name, version |-> v]

\* the inner loop of checkDependencies over the versions of one name; acc
\* holds the errors collected and the frozen queries made so far
RECURSIVE checkVersions(_, _, _, _, _, _)
checkVersions(name, versions, i, strict, answer, acc) ==
    IF i > Len(versions) THEN [err |-> FALSE, errors |-> acc.errors, queries |-> acc.queries]
    ELSE LET v == versions[i] IN
         IF IsPlaceholder(v) THEN checkVersions(name, versions, i + 1, strict, answer, acc)
         ELSE IF HasPrefix(v, BAD)
         THEN checkVersions(name, versions, i + 1, strict, answer,
                  IF strict
                  THEN [acc EXCEPT !.errors = @ \cup {DepError("specific", name, v)}]
                  ELSE acc)
         ELSE LET r == cookbookFrozen(answer)
                  asked == [acc EXCEPT !.queries = @ \cup {DepQuery(name, v)}]
              IN IF r.err THEN [err |-> TRUE, errors |-> asked.errors, queries |-> asked.queries]
                 ELSE checkVersions(name, versions, i + 1, strict, answer,
                          IF ~r.frozen
                          THEN [asked EXCEPT !.errors = @ \cup {DepError("frozen", name, v)}]
                          ELSE asked)

\* the outer loop leaving at the first name that has an error line
RECURSIVE checkNamesStopAtFirst(_, _, _, _, _)
checkNamesStopAtFirst(rem, constraints, strict, chef, acc) ==
    IF rem = {} THEN {[err |-> FALSE, errors |-> acc.errors, queries |-> acc.queries]}
    ELSE UNION {
        LET r == checkVersions(name, constraints[name], 1, strict, chef[name], acc) IN
        IF r.err \/ r.errors # {} THEN {r}
        ELSE checkNamesStopAtFirst(rem \ {name}, constraints, strict, chef,
                                   [errors |-> r.errors, queries |-> r.queries])
        : name \in rem }

\* the outer loop, a range over a map: every visiting order
RECURSIVE checkNames(_, _, _, _, _)
checkNames(rem, constraints, strict, chef, acc) ==
    IF rem = {} THEN {[err |-> FALSE, errors |-> acc.errors, queries |-> acc.queries]}
    ELSE UNION {
        LET r == checkVersions(name, constraints[name], 1, strict, chef[name], acc) IN
        IF r.err THEN {r}
        ELSE checkNames(rem \ {name}, constraints, strict, chef,
                        [errors |-> r.errors, queries |-> r.queries])
        : name \in rem }

\* cg.checkDependencies(constraints, validateConstraints): the results it
\* can return; chef is the Chef server's answer per cookbook name
checkDependencies(constraints, strict, chef) ==
    { IF r.err THEN [code |-> StatusBadGateway, errors |-> {}, queries |-> r.queries]
      ELSE IF r.errors # {}
      THEN [code |-> StatusPreconditionFailed, errors |-> r.errors, queries |-> r.queries]
      ELSE [code |-> 0, errors |-> {}, queries |-> r.queries]
      : r \in checkNames(DOMAIN constraints, constraints, strict, chef,
                         [errors |-> {}, queries |-> {}]) }

-----------------------------------------------------------------------------
(* Archive build, lint checks, tag and publish.                            *)

\* f.Name of a cookbook file: the last segment of f.Path
FileName(path) == <<path[Len(path)]>>

\* what a client uploads: the files with their hashes and the two ignore
\* files found among the root files
UploadedCookbooks ==
    { [files |-> [x \in D |-> "h1"], gitignore |-> g, chefignore |-> <<>>]
      : D \in {{<<"a.rb">>}, {<<"a.rb">>, <<"extra.rb">>}},
        g \in {<<>>, <<[names |-> {<<"extra.rb">>}, valid |-> TRUE, Include |-> FALSE]>>} }

\* the user of the request (X-Ops-Userid) and the cookbook's name
User == <<"a">>
CookbookName == <<"c">>

\* path.Join(cfg.Default.Tempdir, fmt.Sprintf("%s-%s", user, name)), below
\* the temporary directory
CookbookPath(user, name) == user \o <<"-">> \o name

\* cg.getAllCookbookFiles(): the files in the order of the request body
getAllCookbookFiles(up) ==
    SelectSeq(<<<<"a.rb">>, <<"extra.rb">>>>, LAMBDA f : f \in DOMAIN up.files)

\* how many downloads of the file loop succeed before one fails
Downloads == 0..2

\* the file loop of processCookbookFiles from file i on: good downloads
\* are left, acc is cg.FileHashes, the files written to disk so far
RECURSIVE FileLoop(_, _, _, _, _)
FileLoop(up, files, i, good, acc) ==
    IF i > Len(files) THEN [err |-> FALSE, FileHashes |-> acc]
    ELSE LET f == files[i]
             ig == ignoreThisFile(up.gitignore, up.chefignore, FileName(f), FALSE)
         IN IF ig.err THEN [err |-> TRUE, FileHashes |-> acc]
            ELSE IF ig.ignore THEN FileLoop(up, files, i + 1, good, acc)
            ELSE IF good = 0 THEN [err |-> TRUE, FileHashes |-> acc]
            ELSE FileLoop(up, files, i + 1, good - 1,
                          [x \in DOMAIN acc \cup {f} |-> IF x = f THEN up.files[f] ELSE acc[x]])

\* cg.processCookbookFiles(): every file that is not ignored is downloaded,
\* written to disk below cg.CookbookPath and hashed, until a step fails
processCookbookFiles(up, good) == FileLoop(up, getAllCookbookFiles(up), 1, good, EmptyMap)

\* a lint tool finds nothing, reports offences, or cannot be executed
LintAnswers == {"clean", "offences", "failed"}

\* runFoodcritic / runRubocop: the error code
runLint(answer) ==
    IF answer = "failed" THEN StatusBadGateway
    ELSE IF answer = "offences" THEN StatusPreconditionFailed
    ELSE 0

\* the decision without the metric
continueAfterFailedCheckNoMetric(check, Mode, ForcedUpload) ==
    IF Mode = "permissive" /\ ForcedUpload
    THEN [continue |-> TRUE, events |-> <<>>]
    ELSE [continue |-> FALSE, events |-> <<>>]

\* the decision taken on ForcedUpload alone
continueAfterFailedCheckForcedOnly(check, Mode, ForcedUpload) ==
    IF ForcedUpload
    THEN [continue |-> TRUE, events |-> <<Event("metric:forced_bypass", 0, check)>>]
    ELSE [continue |-> FALSE, events |-> <<Event("metric:no_bypass", 0, check)>>]

\* cg.continueAfterFailedCheck(check): the decision and the metric sent
continueAfterFailedCheck(check, Mode, ForcedUpload) ==
    IF Mode = "permissive" /\ ForcedUpload
    THEN [continue |-> TRUE, events |-> <<Event("metric:forced_bypass", 0, check)>>]
    ELSE [continue |-> FALSE, events |-> <<Event("metric:no_bypass", 0, check)>>]

\* one of the two blocks of executeChecks
oneCheck(check, configured, answer, Mode, ForcedUpload) ==
    IF ~configured THEN [code |-> 0, events |-> <<>>]
    ELSE LET code == runLint(answer)
             ev == <<Event("run:" \o check, 0, answer)>>
         IN IF code = 0 THEN [code |-> 0, events |-> ev]
            ELSE IF code = StatusBadGateway THEN [code |-> code, events |-> ev]
            ELSE LET c == continueAfterFailedCheck(check, Mode, ForcedUpload) IN
                 IF c.continue THEN [code |-> 0, events |-> ev \o c.events]
                 ELSE [code |-> code, events |-> ev \o c.events]

\* cg.executeChecks()
executeChecks(Foodcritic, fc, Rubocop, rc, Mode, ForcedUpload) ==
    LET a == oneCheck("foodcritic", Foodcritic, fc, Mode, ForcedUpload) IN
    IF a.code # 0 THEN a
    ELSE LET b == oneCheck("rubocop", Rubocop, rc, Mode, ForcedUpload) IN
         [code |-> b.code, events |-> a.events \o b.events]

\* the two implementations of the Git interface
GitTypes == {"github", "gitlab"}

\* tagCookbook finds the tag present, creates it, or fails
TagAnswers == {"created", "exists", "error"}
CallAnswers == {"ok", "error"}

\* (g *GitHub) UntagRepo: DeleteRef succeeds and the tag is gone, or fails
UntagRepoGitHub(answer) ==
    IF answer = "error" THEN [err |-> TRUE, deleted |-> FALSE]
    ELSE [err |-> FALSE, deleted |-> TRUE]

\* (g *GitLab) UntagRepo: not implemented, returns nil
UntagRepoGitLab(answer) == [err |-> FALSE, deleted |-> FALSE]

\* untagCookbook(org, cookbook, tag): UntagRepo of the organization's client
untagCookbook(Type, answer) ==
    IF Type = "gitlab" THEN UntagRepoGitLab(answer) ELSE UntagRepoGitHub(answer)

TagAndPublishResult(code, events, tagExists, created, errText) ==
    [code |-> code, events |-> events, tagExists |-> tagExists, created |-> created,
     errText |-> errText]

\* the registry accepts the upload or the upload fails
PublishAnswers == {"ok", "error"}

\* cg.publishCookbook() without the test of the blacklist
publishCookbookNoBlacklist(blackListed, answer) ==
    [err |-> answer = "error", res |-> answer]

\* cg.publishCookbook(): nothing is sent for a blacklisted name
publishCookbook(blackListed, answer) ==
    IF blackListed THEN [err |-> FALSE, res |-> "blacklisted"]
    ELSE [err |-> answer = "error", res |-> answer]

\* tagAndPublishCookbook with the cleanup after a failed publication not
\* conditioned on the tagged flag
tagAndPublishCookbookUntagAlways(sc, Type, tag, PublishCookbook, blackListed, publish, untag) ==
    IF sc.artifact THEN TagAndPublishResult(0, <<>>, FALSE, FALSE, {})
    ELSE LET tagEv == IF ~sc.tagged THEN <<Event("tagCookbook", sc.gitConfig, tag)>> ELSE <<>>
             exists == sc.tagged \/ tag \in {"created", "exists"}
             created == ~sc.tagged /\ tag = "created"
         IN IF ~sc.tagged /\ tag = "error"
            THEN TagAndPublishResult(StatusBadGateway, tagEv, FALSE, FALSE, {"tag"})
            ELSE IF PublishCookbook /\ sc.private
            THEN LET p == publishCookbook(blackListed, publish)
                     pubEv == tagEv \o <<Event("publishCookbook", 0, p.res)>>
                 IN IF p.err
                    THEN LET u == untagCookbook(Type, untag)
                             res == IF u.err THEN "error" ELSE "ok"
                         IN TagAndPublishResult(StatusBadGateway,
                                pubEv \o <<Event("untagCookbook", sc.gitConfig, res)>>,
                                exists /\ ~u.deleted, created,
                                IF u.err THEN {"publish", "untag-note"} ELSE {"publish"})
                    ELSE TagAndPublishResult(0, pubEv, exists, created, {})
            ELSE TagAndPublishResult(0, tagEv, exists, created, {})

\* cg.tagAndPublishCookbook(); Type is the backend of the source's
\* organization, PublishCookbook the organization's setting, blackListed
\* what blackListed(org, name) returns
tagAndPublishCookbook(sc, Type, tag, PublishCookbook, blackListed, publish, untag) ==
    IF sc.artifact THEN TagAndPublishResult(0, <<>>, FALSE, FALSE, {})
    ELSE LET tagEv == IF ~sc.tagged THEN <<Event("tagCookbook", sc.gitConfig, tag)>> ELSE <<>>
             exists == sc.tagged \/ tag \in {"created", "exists"}
             created == ~sc.tagged /\ tag = "created"
         IN IF ~sc.tagged /\ tag = "error"
            THEN TagAndPublishResult(StatusBadGateway, tagEv, FALSE, FALSE, {"tag"})
            ELSE IF PublishCookbook /\ sc.private
            THEN LET p == publishCookbook(blackListed, publish)
                     pubEv == tagEv \o <<Event("publishCookbook", 0, p.res)>>
                 IN IF p.err
                    THEN IF ~sc.tagged
                         THEN LET u == untagCookbook(Type, untag)
                                  res == IF u.err THEN "error" ELSE "ok"
                              IN TagAndPublishResult(StatusBadGateway,
                                     pubEv \o <<Event("untagCookbook", sc.gitConfig, res)>>,
                                     exists /\ ~u.deleted, created,
                                     IF u.err THEN {"publish", "untag-note"} ELSE {"publish"})
                         ELSE TagAndPublishResult(StatusBadGateway, pubEv, exists, created,
                                                  {"publish"})
                    ELSE TagAndPublishResult(0, pubEv, exists, created, {})
            ELSE TagAndPublishResult(0, tagEv, exists, created, {})

\* the source bundle that is downloaded: its files and the ignore files it
\* carries (hasGit / hasChef say whether it carries one)
SourceBundles ==
    { [files |-> f, hasGit |-> FALSE, gitignore |-> <<>>, hasChef |-> FALSE, chefignore |-> <<>>]
      : f \in {m \in HashMaps : DOMAIN m \in {{<<"a.rb">>}, {<<"a.rb">>, MetadataJSON}, {}}
                                 /\ (MetadataJSON \in DOMAIN m => m[MetadataJSON] = "h2")} }
    \cup { [files |-> [x \in {<<"a.rb">>} |-> "h1"], hasGit |-> TRUE, gitignore |-> g,
            hasChef |-> FALSE, chefignore |-> <<>>]
           : g \in {<<>>, <<[names |-> {<<"extra.rb">>}, valid |-> TRUE, Include |-> FALSE]>>} }

\* cg.getSourceFileHashes(): the source's map, and the source's ignore
\* files replace the uploaded ones
getSourceFileHashes(bundle, download, git, chef) ==
    IF ~download THEN [err |-> TRUE, files |-> EmptyMap, git |-> git, chef |-> chef]
    ELSE [err |-> FALSE, files |-> bundle.files,
          git |-> IF bundle.hasGit THEN bundle.gitignore ELSE git,
          chef |-> IF bundle.hasChef THEN bundle.chefignore ELSE chef]

-----------------------------------------------------------------------------
(* processCookbook: the handler of PUT and DELETE on a cookbook version.   *)

Modes == {"silent", "permissive", "enforced"}
Methods == {"PUT", "DELETE"}

Init ==
    /\ pc = "received"
    /\ req \in [Method : Methods, Mode : Modes, CommitChanges : BOOLEAN]
    /\ cfg = [Forks |-> 0]
    /\ cg = NoChefGuard
    /\ log = <<>>
    /\ resp = NoResponse
    /\ FileHashes = EmptyMap
    /\ sh = EmptyMap
    /\ GitIgnoreFile = <<>>
    /\ ChefIgnoreFile = <<>>
    /\ cmp = NoCmp
    /\ tp = NoTagAndPublish
    /\ disk = {}
    /\ uploads = <<>>
    /\ gitSync = NoSync
    /\ loader = NoLoader
    /\ ign = NoIgnore
    /\ repo = NoRepo
    /\ multi = NoMulti
    /\ tagging = NoTagging
    /\ dep = NoDep

\* the deferred os.RemoveAll(cg.CookbookPath), once it is registered
Deferred(c) == IF c.cleanup THEN <<Event("os.RemoveAll", 0, "")>> ELSE <<>>

\* writeFileToDisk(path.Join(dir, file), content): the file is created or
\* replaced
writeFileToDisk(d, dir, file, hash) ==
    {f \in d : ~(f[1] = dir /\ f[2] = file)} \cup {<<dir, file, hash>>}

\* os.RemoveAll(dir)
RemoveAll(d, dir) == {f \in d : f[1] # dir}

\* the directory tree after the deferred call, once it is registered
AfterDeferred(c, d) == IF c.cleanup THEN RemoveAll(d, CookbookPath(User, CookbookName)) ELSE d

\* a call of the handler returned errCode (0: no error)
Returned(fn, errCode) == <<Event("return:" \o fn, errCode, "")>>

\* errorHandler(w, err, status) without the return
ReturnOmitted(status, events, c) ==
    /\ pc' = "forward"
    /\ resp' = [code |-> status, forwarded |-> FALSE]
    /\ log' = log \o events
    /\ disk' = disk

\* errorHandler(w, err, status); return
Return(status, events, c) ==
    /\ pc' = "done"
    /\ resp' = [code |-> status, forwarded |-> FALSE]
    /\ log' = log \o events \o Deferred(c)
    /\ disk' = AfterDeferred(c, disk)

\* the step that follows a successful call
Continue(next, events) ==
    /\ pc' = next
    /\ resp' = resp
    /\ log' = log \o events
    /\ disk' = disk

\* no branch on cg.Cookbook.Frozen
AfterFrozenCheckAlwaysGated(c) == "processCookbookFiles"

\* the branch on cg.Cookbook.Frozen after the frozen check
AfterFrozenCheck(c) == IF c.Frozen THEN "processCookbookFiles" ELSE "forward"

\* validateCookbookStatus without the dependency check
AfterFilesNoDependencies(c) == "searchCommunityCookbooks"

\* where validateCookbookStatus starts
AfterFiles(c) == IF c.Dependencies THEN "checkDependencies" ELSE "searchCommunityCookbooks"

\* validateCookbookStatus without the test of the artifact flag
AfterSourceAlwaysChecks(sc) == "executeChecks"

\* what validateCookbookStatus does with the resolved source
AfterSource(sc) == IF ~sc.artifact THEN "executeChecks" ELSE "compareCookbooks"

\* what the Chef server answers to a request the proxy passes on
ProxyAnswers == {"success", "failure"}

\* silent mode without CommitChanges: p.ServeHTTP at once
SilentPassThrough ==
    /\ pc = "received"
    /\ req.Mode = "silent" /\ ~req.CommitChanges
    /\ pc' = "done"
    /\ resp' = [code |-> 0, forwarded |-> TRUE]
    /\ \E answer \in ProxyAnswers :
         log' = Append(log, Event("p.ServeHTTP", 0, answer))
    /\ UNCHANGED <<tagging, multi, repo, ign, loader, gitSync, uploads, disk, dep, tp, req, cfg, cg, FileHashes, sh, GitIgnoreFile, ChefIgnoreFile, cmp>>

\* newChefGuard(r)
NewChefGuard ==
    /\ pc = "received"
    /\ ~(req.Mode = "silent" /\ ~req.CommitChanges)
    /\ \E ok \in BOOLEAN, forced \in BOOLEAN :
         IF ~ok
         THEN Return(StatusBadGateway, Returned("newChefGuard", StatusBadGateway), cg) /\ cg' = cg
         ELSE /\ cg' = [cg EXCEPT !.ForcedUpload = forced]
              /\ Continue(IF req.Method # "DELETE" THEN "dumpBody" ELSE "forward", <<>>)
    /\ UNCHANGED <<tagging, multi, repo, ign, loader, gitSync, uploads, dep, tp, req, cfg, FileHashes, sh, GitIgnoreFile, ChefIgnoreFile, cmp>>

\* dumpBody(r) and json.Unmarshal(body, &cg.Cookbook)
DumpBody ==
    /\ pc = "dumpBody"
    /\ \E ok \in BOOLEAN, frozen \in BOOLEAN, deps \in BOOLEAN :
         IF ~ok
         THEN Return(StatusBadGateway, Returned("dumpBody", StatusBadGateway), cg) /\ cg' = cg
         ELSE /\ cg' = [cg EXCEPT !.Frozen = frozen, !.Dependencies = deps]
              /\ Continue(IF req.Mode # "silent" THEN "checkCookbookFrozen" ELSE "forward",
                          Returned("dumpBody", 0))
    /\ UNCHANGED <<tagging, multi, repo, ign, loader, gitSync, uploads, dep, tp, req, cfg, FileHashes, sh, GitIgnoreFile, ChefIgnoreFile, cmp>>

\* cg.checkCookbookFrozen(), and the branch on cg.Cookbook.Frozen
CheckCookbookFrozen ==
    /\ pc = "checkCookbookFrozen"
    /\ \E answer \in ChefAnswers, ridley \in BOOLEAN :
         LET errCode == checkCookbookFrozen(answer)
             ev == <<Event("checkCookbookFrozen", 0, answer)>>
                   \o Returned("checkCookbookFrozen", errCode)
         IN IF errCode # 0
            THEN Return(IF ridley THEN StatusConflict ELSE errCode, ev, cg)
            ELSE Continue(AfterFrozenCheck(cg), ev)
    /\ UNCHANGED <<tagging, multi, repo, ign, loader, gitSync, uploads, dep, tp, req, cfg, cg, FileHashes, sh, GitIgnoreFile, ChefIgnoreFile, cmp>>

\* cg.processCookbookFiles(), and the defer that follows its success;
\* cg.Cookbook is the cookbook of the request body the loops read
ProcessCookbookFiles ==
    /\ pc = "processCookbookFiles"
    /\ \E up \in UploadedCookbooks, good \in Downloads :
         LET r == processCookbookFiles(up, good)
             code == IF r.err THEN StatusBadGateway ELSE 0
             ev == <<Event("processCookbookFiles", 0, IF r.err THEN "error" ELSE "ok")>>
                   \o Returned("processCookbookFiles", code)
             dir == CookbookPath(User, CookbookName)
             written == {<<dir, f, r.FileHashes[f]>> : f \in DOMAIN r.FileHashes}
         IN /\ FileHashes' = r.FileHashes
            /\ GitIgnoreFile' = up.gitignore
            /\ ChefIgnoreFile' = up.chefignore
            /\ IF r.err
               THEN /\ pc' = "done"
                    /\ resp' = [code |-> StatusBadGateway, forwarded |-> FALSE]
                    /\ log' = log \o ev \o Deferred(cg)
                    /\ disk' = AfterDeferred(cg, disk \cup written)
                    /\ cg' = cg
               ELSE /\ pc' = AfterFiles(cg)
                    /\ resp' = resp
                    /\ log' = log \o ev
                    /\ disk' = disk \cup written
                    /\ cg' = [cg EXCEPT !.cleanup = TRUE, !.Cookbook = up]
    /\ UNCHANGED <<tagging, multi, repo, ign, loader, gitSync, uploads, dep, tp, req, cfg, sh, cmp>>

\* validateCookbookStatus: cg.checkDependencies(parseCookbookVersions(...), false)
CheckDependencies ==
    /\ pc = "checkDependencies"
    /\ \E deps \in DependencyMaps, chef \in [DepNames -> ChefAnswers] :
         \E r \in checkDependencies(parseCookbookVersions(deps), FALSE, chef) :
            LET failed == \E q \in r.queries : chef[q.name] = "error"
                unfrozen == \E q \in r.queries : chef[q.name] \in {"unfrozen", "notfound"}
                ev == <<Event("checkDependencies", r.code,
                              IF failed THEN "error" ELSE IF unfrozen THEN "unfrozen" ELSE "")>>
            IN IF r.code # 0
               THEN Return(r.code, ev \o Returned("validateCookbookStatus", r.code), cg)
               ELSE Continue("searchCommunityCookbooks", ev)
    /\ UNCHANGED <<tagging, multi, repo, ign, loader, gitSync, uploads, dep, tp, req, cfg, cg, FileHashes, sh, GitIgnoreFile, ChefIgnoreFile, cmp>>

\* searchSourceCookbook: searchCommunityCookbooks(name, version);
\* cfg.Community.Forks is read when the name is listed without the version
SearchCommunityCookbooks ==
    /\ pc = "searchCommunityCookbooks"
    /\ \E answer \in SupermarketAnswers, n \in 0..MaxForks :
         /\ answer # "version-unknown" => n = 0
         /\ cfg' = [cfg EXCEPT !.Forks = n]
         /\ \E forks \in [1..n -> GitOrgStates] :
              LET r == searchCommunityCookbooks(answer, forks)
              IN IF r.err
                 THEN /\ Return(r.errCode,
                                r.events \o Returned("validateCookbookStatus", r.errCode), cg)
                      /\ cg' = cg
                 ELSE IF ~r.sc.nil
                 THEN /\ cg' = [cg EXCEPT !.SourceCookbook = r.sc]
                      /\ Continue(AfterSource(r.sc), r.events)
                 ELSE /\ cg' = cg
                      /\ Continue("searchPrivateCookbooks", r.events)
    /\ UNCHANGED <<tagging, multi, repo, ign, loader, gitSync, uploads, dep, tp, req, FileHashes, sh, GitIgnoreFile, ChefIgnoreFile, cmp>>

\* searchSourceCookbook: searchPrivateCookbooks(chefOrg, name, version) and
\* the not-found error
SearchPrivateCookbooks ==
    /\ pc = "searchPrivateCookbooks"
    /\ \E Server \in BOOLEAN, answer \in SupermarketAnswers, SearchGit \in BOOLEAN,
          gitConfigs \in SeqsUpTo(GitOrgStates, MaxGitOrgs) \ {<<>>} :
         LET r == searchSourceCookbookPrivate(Server, answer, SearchGit, gitConfigs)
         IN IF r.err
            THEN /\ Return(r.errCode, r.events \o Returned("validateCookbookStatus", r.errCode), cg)
                 /\ cg' = cg
            ELSE /\ cg' = [cg EXCEPT !.SourceCookbook = r.sc]
                 /\ Continue(AfterSource(r.sc), r.events)
    /\ UNCHANGED <<tagging, multi, repo, ign, loader, gitSync, uploads, dep, tp, req, cfg, FileHashes, sh, GitIgnoreFile, ChefIgnoreFile, cmp>>

\* validateCookbookStatus: cg.executeChecks()
ExecuteChecks ==
    /\ pc = "executeChecks"
    /\ \E Foodcritic \in BOOLEAN, fc \in LintAnswers, Rubocop \in BOOLEAN, rc \in LintAnswers :
         LET r == executeChecks(Foodcritic, fc, Rubocop, rc, req.Mode, cg.ForcedUpload)
         IN IF r.code # 0
            THEN Return(r.code, r.events \o Returned("validateCookbookStatus", r.code), cg)
            ELSE Continue("compareCookbooks", r.events)
    /\ UNCHANGED <<tagging, multi, repo, ign, loader, gitSync, uploads, dep, tp, req, cfg, cg, FileHashes, sh, GitIgnoreFile, ChefIgnoreFile, cmp>>

\* validateCookbookStatus: cg.compareCookbooks(), its last step
CompareCookbooks ==
    /\ pc = "compareCookbooks"
    /\ \E bundle \in SourceBundles, download \in BOOLEAN :
         LET s == getSourceFileHashes(bundle, download, GitIgnoreFile, ChefIgnoreFile)
         IN /\ sh' = s.files
            /\ GitIgnoreFile' = s.git
            /\ ChefIgnoreFile' = s.chef
            /\ \E r \in (IF s.err THEN {CmpError}
                         ELSE compareCookbooks(FileHashes, s.files, s.git, s.chef)) :
                 /\ cmp' = r
                 /\ LET ev == <<Event("compareCookbooks", r.code, r.kind)>>
                             \o Returned("validateCookbookStatus", r.code)
                    IN IF r.code # 0
                       THEN Return(r.code, ev, cg)
                       ELSE Continue("tagAndPublishCookbook", ev)
    /\ UNCHANGED <<tagging, multi, repo, ign, loader, gitSync, uploads, dep, tp, req, cfg, cg, FileHashes>>

\* cg.tagAndPublishCookbook()
TagAndPublishCookbook ==
    /\ pc = "tagAndPublishCookbook"
    /\ \E Type \in GitTypes, tag \in TagAnswers, PublishCookbook \in BOOLEAN,
          blackListed \in BOOLEAN, publish \in PublishAnswers, untag \in CallAnswers :
         LET r == tagAndPublishCookbook(cg.SourceCookbook, Type, tag, PublishCookbook,
                                        blackListed, publish, untag)
             ev == r.events \o Returned("tagAndPublishCookbook", r.code)
             untagged == \E i \in 1..Len(r.events) : r.events[i].op = "untagCookbook"
             \* the organization's PublishCookbook is read once the tag is there
             read == ~cg.SourceCookbook.artifact /\ "tag" \notin r.errText
             called == \E i \in 1..Len(r.events) : r.events[i].op = "publishCookbook"
         IN /\ tp' = [Type |-> IF untagged THEN Type ELSE "",
                      PublishCookbook |-> read /\ PublishCookbook,
                      blackListed |-> called /\ blackListed,
                      tagExists |-> r.tagExists, created |-> r.created,
                      errText |-> r.errText]
            /\ IF r.code # 0
               THEN Return(r.code, ev, cg)
               ELSE Continue("forward", ev)
    /\ UNCHANGED <<tagging, multi, repo, ign, loader, gitSync, uploads, dep, req, cfg, cg, FileHashes, sh, GitIgnoreFile, ChefIgnoreFile, cmp>>

\* go cg.syncedGitUpdate(...) when CommitChanges is set, then p.ServeHTTP
Forward ==
    /\ pc = "forward"
    /\ pc' = "done"
    /\ resp' = [code |-> 0, forwarded |-> TRUE]
    /\ \E answer \in ProxyAnswers :
         log' = log
                \o (IF req.CommitChanges THEN <<Event("go syncedGitUpdate", 0, req.Method)>> ELSE <<>>)
                \o <<Event("p.ServeHTTP", 0, answer)>>
                \o Deferred(cg)
    /\ disk' = AfterDeferred(cg, disk)
    /\ UNCHANGED <<tagging, multi, repo, ign, loader, gitSync, uploads, dep, tp, req, cfg, cg, FileHashes, sh, GitIgnoreFile, ChefIgnoreFile, cmp>>

Next ==
    \/ SilentPassThrough
    \/ NewChefGuard
    \/ DumpBody
    \/ CheckCookbookFrozen
    \/ ProcessCookbookFiles
    \/ CheckDependencies
    \/ SearchCommunityCookbooks
    \/ SearchPrivateCookbooks
    \/ ExecuteChecks
    \/ CompareCookbooks
    \/ TagAndPublishCookbook
    \/ Forward

Spec == Init /\ [][Next]_vars

-----------------------------------------------------------------------------
(* The comparison run on its own: every pair of maps and ignore files.     *)

InitCompare ==
    /\ pc = "compare"
    /\ FileHashes \in HashMaps
    /\ sh \in HashMaps
    /\ GitIgnoreFile \in GitIgnoreFiles
    /\ ChefIgnoreFile \in ChefIgnoreFiles
    /\ cmp = NoCmp
    /\ tp = NoTagAndPublish
    /\ disk = {}
    /\ uploads = <<>>
    /\ gitSync = NoSync
    /\ loader = NoLoader
    /\ ign = NoIgnore
    /\ repo = NoRepo
    /\ multi = NoMulti
    /\ tagging = NoTagging
    /\ req = NoRequest
    /\ cfg = [Forks |-> 0]
    /\ cg = NoChefGuard
    /\ log = <<>>
    /\ resp = NoResponse
    /\ dep = NoDep

\* compareCookbooks on the maps at hand
RunCompare ==
    /\ pc = "compare"
    /\ cmp' \in compareCookbooks(FileHashes, sh, GitIgnoreFile, ChefIgnoreFile)
    /\ pc' = "compared"
    /\ UNCHANGED <<tagging, multi, repo, ign, loader, gitSync, uploads, disk, dep, tp, req, cfg, cg, log, resp, FileHashes, sh, GitIgnoreFile, ChefIgnoreFile>>

NextCompare == RunCompare

SpecCompare == InitCompare /\ [][NextCompare]_vars

-----------------------------------------------------------------------------
(* The dependency check on its own: every constraint map, both callers.    *)

\* validateCookbookStatus checks the dependencies of an uploaded cookbook,
\* validateConstraints the cookbook_versions of an environment
Callers == {"validateCookbookStatus", "validateConstraints"}

\* every caller passing true
validateConstraintsFlagAlways(caller) == TRUE

\* the validateConstraints argument the caller passes
validateConstraintsFlag(caller) == caller = "validateConstraints"

InitDeps ==
    /\ pc = "deps"
    /\ dep \in [caller : Callers, constraints : DependencyMaps,
                 chef : [DepNames -> ChefAnswers], parsed : {<<>>},
                 result : {NoDep.result}]
    /\ req = NoRequest
    /\ cfg = [Forks |-> 0]
    /\ cg = NoChefGuard
    /\ log = <<>>
    /\ resp = NoResponse
    /\ FileHashes = EmptyMap
    /\ sh = EmptyMap
    /\ GitIgnoreFile = <<>>
    /\ ChefIgnoreFile = <<>>
    /\ cmp = NoCmp
    /\ tp = NoTagAndPublish
    /\ disk = {}
    /\ uploads = <<>>
    /\ gitSync = NoSync
    /\ loader = NoLoader
    /\ ign = NoIgnore
    /\ repo = NoRepo
    /\ multi = NoMulti
    /\ tagging = NoTagging

\* parseCookbookVersions on the constraints at hand
ParseCookbookVersions ==
    /\ pc = "deps"
    /\ dep' = [dep EXCEPT !.parsed = parseCookbookVersions(dep.constraints)]
    /\ pc' = "parsed"
    /\ UNCHANGED <<tagging, multi, repo, ign, loader, gitSync, uploads, disk, tp, req, cfg, cg, log, resp, FileHashes, sh, GitIgnoreFile, ChefIgnoreFile, cmp>>

\* cg.checkDependencies on the parsed constraints
RunCheckDependencies ==
    /\ pc = "parsed"
    /\ \E r \in checkDependencies(dep.parsed, validateConstraintsFlag(dep.caller), dep.chef) :
         dep' = [dep EXCEPT !.result = r]
    /\ pc' = "checked"
    /\ UNCHANGED <<tagging, multi, repo, ign, loader, gitSync, uploads, disk, tp, req, cfg, cg, log, resp, FileHashes, sh, GitIgnoreFile, ChefIgnoreFile, cmp>>

NextDeps == ParseCookbookVersions \/ RunCheckDependencies

SpecDeps == InitDeps /\ [][NextDeps]_vars

-----------------------------------------------------------------------------
(* parseCookbookVersions on its own: the constraint of one cookbook, every *)
(* string made of an operator part and a version part.                     *)

OperatorChars == {"=", " ", ">", "~"}
VersionChars == {"1", "2", "3", "."}

ParseInputs == {op \o ver : op \in SeqsUpTo(OperatorChars, MaxPrefixLen),
                             ver \in SeqsUpTo(VersionChars, MaxVersionLen)}

InitParse ==
    /\ pc = "deps"
    /\ dep \in [caller : {"validateCookbookStatus"},
                 constraints : [{"bar"} -> ParseInputs],
                 chef : {[name \in DepNames |-> "frozen"]}, parsed : {<<>>},
                 result : {NoDep.result}]
    /\ req = NoRequest
    /\ cfg = [Forks |-> 0]
    /\ cg = NoChefGuard
    /\ log = <<>>
    /\ resp = NoResponse
    /\ FileHashes = EmptyMap
    /\ sh = EmptyMap
    /\ GitIgnoreFile = <<>>
    /\ ChefIgnoreFile = <<>>
    /\ cmp = NoCmp
    /\ tp = NoTagAndPublish
    /\ disk = {}
    /\ uploads = <<>>
    /\ gitSync = NoSync
    /\ loader = NoLoader
    /\ ign = NoIgnore
    /\ repo = NoRepo
    /\ multi = NoMulti
    /\ tagging = NoTagging

NextParse == ParseCookbookVersions

SpecParse == InitParse /\ [][NextParse]_vars

-----------------------------------------------------------------------------
(* Two uploads in flight at the same time.  Each request runs the handler  *)
(* on its own goroutine; the steps below are its accesses to the           *)
(* temporary directory: the writes of processCookbookFiles, the lint run   *)
(* over cg.CookbookPath and the deferred os.RemoveAll.                     *)

Requests == {1, 2}

\* X-Ops-Userid and cookbook names of the requests
Users == {<<"a">>, <<"a", "-", "b">>}
CookbookNames == {<<"c">>, <<"b", "-", "c">>}

\* what request i uploads: the content differs from request to request
UploadOf(i) ==
    IF i = 1 THEN [files |-> [x \in {<<"a.rb">>} |-> "h1"]]
    ELSE [files |-> [x \in {<<"a.rb">>, <<"extra.rb">>} |-> "h2"]]

\* cg.CookbookPath of a request
PathOf(u) == CookbookPath(u.user, u.name)

\* the files below a directory
TreeAt(d, dir) == {<<f[2], f[3]>> : f \in {x \in d : x[1] = dir}}

InitUploads ==
    /\ uploads \in [Requests -> [user : Users, name : CookbookNames, pc : {"received"},
                                  next : {1}, wrote : {{}}, linted : {{}}]]
    /\ disk = {}
    /\ gitSync = NoSync
    /\ loader = NoLoader
    /\ ign = NoIgnore
    /\ repo = NoRepo
    /\ multi = NoMulti
    /\ tagging = NoTagging
    /\ pc = "uploads"
    /\ req = NoRequest
    /\ cfg = [Forks |-> 0]
    /\ cg = NoChefGuard
    /\ log = <<>>
    /\ resp = NoResponse
    /\ FileHashes = EmptyMap
    /\ sh = EmptyMap
    /\ GitIgnoreFile = <<>>
    /\ ChefIgnoreFile = <<>>
    /\ cmp = NoCmp
    /\ tp = NoTagAndPublish
    /\ dep = NoDep

\* processCookbook up to the assignment of cg.CookbookPath
UploadReceived(i) ==
    /\ uploads[i].pc = "received"
    /\ uploads' = [uploads EXCEPT ![i].pc = "processCookbookFiles"]
    /\ disk' = disk

\* one iteration of the file loop of processCookbookFiles; after the last
\* file the deferred cleanup is registered and validation starts
UploadWriteFile(i) ==
    LET u == uploads[i]
        files == getAllCookbookFiles(UploadOf(i))
        f == files[u.next]
        hash == UploadOf(i).files[f]
    IN /\ u.pc = "processCookbookFiles"
       /\ disk' = writeFileToDisk(disk, PathOf(u), f, hash)
       /\ uploads' = [uploads EXCEPT ![i].next = u.next + 1,
                                      ![i].wrote = u.wrote \cup {<<f, hash>>},
                                      ![i].pc = IF u.next = Len(files) THEN "executeChecks"
                                                ELSE "processCookbookFiles"]

\* executeChecks: the lint tools run over cg.CookbookPath
UploadExecuteChecks(i) ==
    LET u == uploads[i] IN
    /\ u.pc = "executeChecks"
    /\ uploads' = [uploads EXCEPT ![i].linted = TreeAt(disk, PathOf(u)), ![i].pc = "return"]
    /\ disk' = disk

\* the handler returns: the deferred os.RemoveAll(cg.CookbookPath)
UploadReturn(i) ==
    LET u == uploads[i] IN
    /\ u.pc = "return"
    /\ disk' = RemoveAll(disk, PathOf(u))
    /\ uploads' = [uploads EXCEPT ![i].pc = "done"]

NextUploads ==
    \E i \in Requests :
        /\ \/ UploadReceived(i)
           \/ UploadWriteFile(i)
           \/ UploadExecuteChecks(i)
           \/ UploadReturn(i)
        /\ UNCHANGED <<pc, req, cfg, cg, log, resp, FileHashes, sh, GitIgnoreFile,
                       ChefIgnoreFile, cmp, dep, tp, gitSync, loader, ign, repo, multi, tagging>>

SpecUploads == InitUploads /\ [][NextUploads]_vars

-----------------------------------------------------------------------------
(* syncedGitUpdate on concurrent goroutines.  ms is the package variable   *)
(* (0: nil), a MultiSyncer is numbered in the order of creation; its run   *)
(* loop keeps one channel of capacity 1 per token in store, and full holds *)
(* the channels that hold their element.                                   *)

Goroutines == {1, 2}
Repos == {"config", "cookbooks"}

InitSync ==
    /\ gitSync \in [ms : {0}, syncers : {0}, store : {{}}, full : {{}},
                     g : [Goroutines -> [Repo : Repos, pc : {"start"}, lock : {0}, unlock : {0}]]]
    /\ pc = "sync"
    /\ disk = {}
    /\ uploads = <<>>
    /\ loader = NoLoader
    /\ ign = NoIgnore
    /\ repo = NoRepo
    /\ multi = NoMulti
    /\ tagging = NoTagging
    /\ req = NoRequest
    /\ cfg = [Forks |-> 0]
    /\ cg = NoChefGuard
    /\ log = <<>>
    /\ resp = NoResponse
    /\ FileHashes = EmptyMap
    /\ sh = EmptyMap
    /\ GitIgnoreFile = <<>>
    /\ ChefIgnoreFile = <<>>
    /\ cmp = NoCmp
    /\ tp = NoTagAndPublish
    /\ dep = NoDep

\* if ms == nil
SyncTestNil(i) ==
    /\ gitSync.g[i].pc = "start"
    /\ gitSync' = [gitSync EXCEPT !.g[i].pc = IF gitSync.ms = 0 THEN "new" ELSE "lock"]

\* ms = multisyncer.New()
SyncNew(i) ==
    /\ gitSync.g[i].pc = "new"
    /\ gitSync' = [gitSync EXCEPT !.syncers = @ + 1, !.ms = gitSync.syncers + 1,
                                   !.g[i].pc = "lock"]

\* ms.Lock(cg.Repo): the command reaches run of the MultiSyncer ms names
\* now, which makes the channel of the token if there is none
SyncLock(i) ==
    LET me == gitSync.g[i] IN
    /\ me.pc = "lock"
    /\ gitSync' = [gitSync EXCEPT !.store = @ \cup {<<gitSync.ms, me.Repo>>},
                                   !.g[i].lock = gitSync.ms,
                                   !.g[i].pc = "locking"]

\* l <- struct{}{} and cmd.done: Lock returns once the channel took the
\* element
SyncLocked(i) ==
    LET me == gitSync.g[i] IN
    /\ me.pc = "locking"
    /\ <<me.lock, me.Repo>> \notin gitSync.full
    /\ gitSync' = [gitSync EXCEPT !.full = @ \cup {<<me.lock, me.Repo>>},
                                   !.g[i].pc = "defer"]

\* defer ms.Unlock(cg.Repo): the receiver is evaluated now
SyncDefer(i) ==
    /\ gitSync.g[i].pc = "defer"
    /\ gitSync' = [gitSync EXCEPT !.g[i].unlock = gitSync.ms, !.g[i].pc = "GetContent"]

\* remarshalConfig, and writeConfigToGit up to gitClient.GetContent; when
\* one of them fails syncedGitUpdate returns
SyncGetContent(i) ==
    /\ gitSync.g[i].pc = "GetContent"
    /\ \E ok \in BOOLEAN :
         gitSync' = [gitSync EXCEPT !.g[i].pc = IF ok THEN "write" ELSE "unlock"]

\* writeConfigToGit: CreateFile, UpdateFile, DeleteFile or DeleteDirectory,
\* and mailChanges
SyncWrite(i) ==
    /\ gitSync.g[i].pc = "write"
    /\ gitSync' = [gitSync EXCEPT !.g[i].pc = "unlock"]

\* the deferred Unlock: run finds the channel of the token (ok) and takes
\* its element, or finds none and does nothing
SyncUnlock(i) ==
    LET me == gitSync.g[i]
        l == <<me.unlock, me.Repo>>
    IN /\ me.pc = "unlock"
       /\ l \in gitSync.store => l \in gitSync.full
       /\ gitSync' = [gitSync EXCEPT !.full = @ \ {l}, !.g[i].pc = "done"]

NextSync ==
    \E i \in Goroutines :
        /\ \/ SyncTestNil(i)
           \/ SyncNew(i)
           \/ SyncLock(i)
           \/ SyncLocked(i)
           \/ SyncDefer(i)
           \/ SyncGetContent(i)
           \/ SyncWrite(i)
           \/ SyncUnlock(i)
        /\ UNCHANGED <<pc, req, cfg, cg, log, resp, FileHashes, sh, GitIgnoreFile,
                       ChefIgnoreFile, cmp, dep, tp, disk, uploads, loader, ign, repo, multi, tagging>>

SpecSync == InitSync /\ [][NextSync]_vars

\* the Go scheduler runs every goroutine that can take a step, and every
\* git and mail call returns
SpecSyncFair == SpecSync /\ WF_vars(NextSync)

-----------------------------------------------------------------------------
(* A reload of the configuration while a request is handled.  The signal   *)
(* handler runs loadConfig on its own goroutine; the handler reads the     *)
(* package variable cfg through getEffectiveConfig each time it needs a    *)
(* setting.  Neither side takes a lock: the assignment cfg = tmpConfig     *)
(* copies a struct while the handler reads it, and the copy can become     *)
(* visible field by field in any order.                                    *)

ConfigKeys == {"Mode", "CommitChanges"}

\* the settings of cfg.Default the cookbook handler reads
Configs == [Mode : Modes, CommitChanges : BOOLEAN]

InitReload ==
    /\ cfg \in Configs
    /\ loader = [pc |-> "idle", old |-> cfg, tmpConfig |-> cfg, copied |-> {}, failed |-> ""]
    /\ ign = NoIgnore
    /\ repo = NoRepo
    /\ multi = NoMulti
    /\ tagging = NoTagging
    /\ pc = "received"
    /\ log = <<>>
    /\ disk = {}
    /\ uploads = <<>>
    /\ gitSync = NoSync
    /\ req = NoRequest
    /\ cg = NoChefGuard
    /\ resp = NoResponse
    /\ FileHashes = EmptyMap
    /\ sh = EmptyMap
    /\ GitIgnoreFile = <<>>
    /\ ChefIgnoreFile = <<>>
    /\ cmp = NoCmp
    /\ tp = NoTagAndPublish
    /\ dep = NoDep

\* getEffectiveConfig(key, org): the value cfg holds now
getEffectiveConfig(key) == cfg[key]

\* the handler reads a setting and goes on
ReadConfig(key, next) ==
    /\ log' = Append(log, Event("getEffectiveConfig", 0, <<key, getEffectiveConfig(key)>>))
    /\ pc' = next
    /\ UNCHANGED <<cfg, loader>>

\* processCookbook: Mode == "silent" && ...
ReadModeOnEntry ==
    /\ pc = "received"
    /\ ReadConfig("Mode", IF getEffectiveConfig("Mode") = "silent" THEN "CommitChanges"
                           ELSE "newChefGuard")

\* processCookbook: ... && CommitChanges == false, then p.ServeHTTP
ReadCommitChangesOnEntry ==
    /\ pc = "CommitChanges"
    /\ ReadConfig("CommitChanges", IF ~getEffectiveConfig("CommitChanges") THEN "done"
                                    ELSE "newChefGuard")

\* processCookbook: Mode != "silent" before the frozen check
ReadModeBeforeChecks ==
    /\ pc = "newChefGuard"
    /\ ReadConfig("Mode", "validate")

\* processCookbook: CommitChanges before syncedGitUpdate and p.ServeHTTP
ReadCommitChangesBeforeForward ==
    /\ pc = "validate"
    /\ ReadConfig("CommitChanges", "done")

\* the steps of loadConfig that can return an error
LoadSteps == {"osext.Executable", "gcfg.ReadFileInto", "verifyRequiredFields",
              "verifyChefConfig", "verifyGitConfigs", "verifyBlackLists", "parsePaths"}

\* loadConfig reading the file into the global cfg
loadConfigIntoGlobal(active, file, failing) ==
    [err |-> failing # "",
     tmpConfig |-> IF failing = "osext.Executable" THEN active ELSE file,
     cfg |-> IF failing = "osext.Executable" THEN active ELSE file]

\* loadConfig() up to the assignment: the file is read into the local
\* tmpConfig and verified there; failing names the step that returns an
\* error ("": none), active is cfg and is not written
loadConfig(active, file, failing) ==
    [err |-> failing # "",
     tmpConfig |-> IF failing = "osext.Executable" THEN active ELSE file,
     cfg |-> active]

\* SIGHUP: loadConfig parses and verifies the file into tmpConfig, or fails
\* and leaves cfg alone
LoadConfig ==
    /\ loader.pc = "idle"
    /\ \E failing \in LoadSteps \cup {""}, file \in Configs :
         LET r == loadConfig(cfg, file, failing) IN
         /\ loader' = [pc |-> IF r.err THEN "failed" ELSE "copy", old |-> cfg,
                       tmpConfig |-> r.tmpConfig, copied |-> {}, failed |-> failing]
         /\ cfg' = r.cfg
    /\ UNCHANGED <<pc, log>>

\* cfg = tmpConfig: one more field of the copy becomes visible
CopyField ==
    /\ loader.pc = "copy"
    /\ \E key \in ConfigKeys \ loader.copied :
         /\ cfg' = [cfg EXCEPT ![key] = loader.tmpConfig[key]]
         /\ loader' = [loader EXCEPT !.copied = @ \cup {key},
                                      !.pc = IF loader.copied \cup {key} = ConfigKeys
                                             THEN "loaded" ELSE "copy"]
    /\ UNCHANGED <<pc, log>>

NextReload ==
    /\ \/ ReadModeOnEntry
       \/ ReadCommitChangesOnEntry
       \/ ReadModeBeforeChecks
       \/ ReadCommitChangesBeforeForward
       \/ LoadConfig
       \/ CopyField
    /\ UNCHANGED <<req, cg, resp, FileHashes, sh, GitIgnoreFile, ChefIgnoreFile, cmp, dep, tp,
                   disk, uploads, gitSync, ign, repo, multi, tagging>>

SpecReload == InitReload /\ [][NextReload]_vars

-----------------------------------------------------------------------------
(* pathspec.GitIgnore on its own: every list of patterns, every name.      *)

IgnoreNames == {<<"a.rb">>, <<"extra.rb">>}

\* the patterns of a .gitignore: plain or negated, matching any of the
\* names or none, and the pattern whose regular expression does not compile
IgnorePatterns ==
    { [names |-> N, valid |-> TRUE, Include |-> b] : N \in SUBSET IgnoreNames, b \in BOOLEAN }
    \cup { [names |-> {}, valid |-> FALSE, Include |-> FALSE] }

InitIgnore ==
    /\ GitIgnoreFile \in SeqsUpTo(IgnorePatterns, MaxIgnoreLines)
    /\ ign \in [name : IgnoreNames, ignore : {FALSE}, err : {FALSE}]
    /\ repo = NoRepo
    /\ multi = NoMulti
    /\ tagging = NoTagging
    /\ pc = "ignore"
    /\ ChefIgnoreFile = <<>>
    /\ disk = {}
    /\ uploads = <<>>
    /\ gitSync = NoSync
    /\ loader = NoLoader
    /\ req = NoRequest
    /\ cfg = [Forks |-> 0]
    /\ cg = NoChefGuard
    /\ log = <<>>
    /\ resp = NoResponse
    /\ FileHashes = EmptyMap
    /\ sh = EmptyMap
    /\ cmp = NoCmp
    /\ tp = NoTagAndPublish
    /\ dep = NoDep

\* pathspec.GitIgnore(content, name)
RunGitIgnore ==
    /\ pc = "ignore"
    /\ LET r == GitIgnore(GitIgnoreFile, ign.name)
       IN ign' = [ign EXCEPT !.ignore = r.ignore, !.err = r.err]
    /\ pc' = "ignored"
    /\ UNCHANGED <<req, cfg, cg, log, resp, FileHashes, sh, GitIgnoreFile, ChefIgnoreFile, cmp,
                   dep, tp, disk, uploads, gitSync, loader, repo, multi, tagging>>

NextIgnore == RunGitIgnore

SpecIgnore == InitIgnore /\ [][NextIgnore]_vars

-----------------------------------------------------------------------------
(* Properties of the handler (Spec).                                       *)

Ops(l) == {l[i].op : i \in 1..Len(l)}
HasOp(op) == op \in Ops(log)
Pos(op) == {i \in 1..Len(log) : log[i].op = op}

ResolveOps == {"searchSupermarket:community", "searchGit:forks",
               "searchSupermarket:private", "searchGit:orgs"}
LintOps == {"run:foodcritic", "run:rubocop"}
SideEffectOps == {"tagCookbook", "publishCookbook", "untagCookbook"}
\* everything the gate does after the frozen check
GatingOps == {"processCookbookFiles", "checkDependencies", "compareCookbooks"}
                 \cup ResolveOps \cup LintOps \cup SideEffectOps

ClientFault == {StatusPreconditionFailed, StatusConflict}

\* the Chef server reported the uploaded version as frozen
ReportedFrozen == \E i \in 1..Len(log) : log[i] = Event("checkCookbookFrozen", 0, "frozen")

\* C1: when the Chef server reports the uploaded version as frozen, the
\* request ends right after the frozen check with a client-fault status:
\* the frozen check and its return are all the request ever does, nothing
\* is built, resolved, linted, compared, tagged, published or forwarded.
C1_FrozenUploadRejectedAtOnce ==
    ReportedFrozen =>
        /\ pc = "done"
        /\ resp.code \in ClientFault
        /\ ~resp.forwarded
        /\ Ops(log) \cap (GatingOps \cup {"p.ServeHTTP", "go syncedGitUpdate"}) = {}
        /\ log[Len(log)] = Event("return:checkCookbookFrozen", StatusPreconditionFailed, "")

C1_Witness ==
    /\ ReportedFrozen
    /\ req.Method = "PUT" /\ req.Mode # "silent"
    /\ cg.Frozen
    /\ resp.code = StatusPreconditionFailed

IsReturn(e) == e.op \in {"return:newChefGuard", "return:dumpBody", "return:checkCookbookFrozen",
                         "return:processCookbookFiles", "return:validateCookbookStatus",
                         "return:tagAndPublishCookbook"}

\* C2: a tag or publish call is preceded, in the same request, by the
\* successful return of validateCookbookStatus; and the request is
\* forwarded to the Chef server exactly when no call of the handler
\* returned an error: after a failed step p.ServeHTTP is never called.
C2_SideEffectsAfterValidationForwardAfterAll ==
    /\ \A j \in 1..Len(log) :
         log[j].op \in {"tagCookbook", "publishCookbook"} =>
            \E i \in 1..(j - 1) : log[i] = Event("return:validateCookbookStatus", 0, "")
    /\ \A j \in 1..Len(log) :
         (IsReturn(log[j]) /\ log[j].n # 0) =>
            /\ ~HasOp("p.ServeHTTP")
            /\ ~resp.forwarded
            /\ pc = "done"
    /\ resp.forwarded <=> HasOp("p.ServeHTTP")

C2_Witness ==
    /\ HasOp("tagCookbook") /\ HasOp("publishCookbook")
    /\ resp.forwarded
    /\ HasOp("p.ServeHTTP")

\* the body was read and the candidate's frozen flag is false
UnfrozenUpload ==
    /\ \E i \in 1..Len(log) : log[i] = Event("return:dumpBody", 0, "")
    /\ ~cg.Frozen

\* C3 as stated: an upload whose frozen flag is false is never gated and
\* is always passed through to the Chef server.
C3_UnfrozenAlwaysPassedThrough ==
    (UnfrozenUpload /\ pc = "done") =>
        /\ Ops(log) \cap GatingOps = {}
        /\ resp.forwarded

\* C3 (amended): an upload whose frozen flag is false is never gated
\* (nothing is built, resolved, linted, compared, dependency-checked,
\* tagged or published); it is passed through to the Chef server unless the
\* upstream frozen check, which still runs outside silent mode, reports the
\* version frozen or fails, and then it is rejected.
C3_UnfrozenSkipsGating ==
    UnfrozenUpload =>
        /\ Ops(log) \cap GatingOps = {}
        /\ pc = "done" =>
             (resp.forwarded <=>
                ~\E i \in 1..Len(log) :
                    log[i].op = "return:checkCookbookFrozen" /\ log[i].n # 0)
        /\ (pc = "done" /\ ~resp.forwarded) => resp.code \in ClientFault \cup {StatusBadGateway}

C3_Witness ==
    /\ UnfrozenUpload
    /\ req.Mode = "enforced"
    /\ HasOp("checkCookbookFrozen")
    /\ resp.forwarded

\* the stage of each call in the order the code runs them
Stage(op) ==
    CASE op = "checkCookbookFrozen" -> 1
      [] op = "processCookbookFiles" -> 2
      [] op = "checkDependencies" -> 3
      [] op \in ResolveOps -> 4
      [] op \in LintOps -> 5
      [] op = "compareCookbooks" -> 6
      [] op \in SideEffectOps -> 7
      [] OTHER -> 0

StagePos == {i \in 1..Len(log) : Stage(log[i].op) # 0}

-----------------------------------------------------------------------------
(* Properties of source resolution (Spec).                                 *)

\* the backend queries of the request, in the order they were made
Queries == SelectSeq(log, LAMBDA e : e.op \in ResolveOps)

\* the precedence of the backends: the public registry (with the fork
\* search that belongs to it), the private registry, the organizations
Precedence(op) ==
    CASE op = "searchSupermarket:community" -> 1
      [] op = "searchGit:forks" -> 2
      [] op = "searchSupermarket:private" -> 3
      [] op = "searchGit:orgs" -> 4

\* what the backend answered is a source for the cookbook
IsHit(e) ==
    CASE e.op \in {"searchSupermarket:community", "searchSupermarket:private"} -> e.res = "hit"
      [] e.op = "searchGit:forks" -> e.res = "tagged"
      [] e.op = "searchGit:orgs" -> e.res \in {"tagged", "untagged"}

\* the source cookbook is the answer of query e
SourceOf(e, sc) ==
    /\ ~sc.nil
    /\ sc.artifact <=> e.op \in {"searchSupermarket:community", "searchSupermarket:private"}
    /\ sc.private <=> Precedence(e.op) >= 3
    /\ sc.LocationType = (IF sc.artifact THEN "supermarket" ELSE "git")
    /\ ~sc.artifact => (sc.gitConfig = e.n /\ (sc.tagged <=> e.res = "tagged"))

\* C9: the backends are queried in the fixed order public registry,
\* private registry, version-control organizations in configured order; no
\* backend is queried after one returned a source; and the source that is
\* returned is the answer of the first backend, in that order, that has one.
C9_FirstHitInPrecedenceOrder ==
    LET q == Queries IN
    /\ Len(q) > 0 => q[1].op = "searchSupermarket:community"
    /\ \A i \in 1..(Len(q) - 1) :
         /\ ~IsHit(q[i])
         /\ \/ Precedence(q[i].op) < Precedence(q[i + 1].op)
            \/ /\ q[i].op = q[i + 1].op
               /\ q[i].op \in {"searchGit:forks", "searchGit:orgs"}
               /\ q[i + 1].n = q[i].n + 1
    /\ \A i \in 1..Len(q) :
         (q[i].op \in {"searchGit:forks", "searchGit:orgs"} /\ (i = 1 \/ q[i - 1].op # q[i].op))
            => q[i].n = 1
    /\ (Len(q) > 0 /\ IsHit(q[Len(q)])) => SourceOf(q[Len(q)], cg.SourceCookbook)
    /\ ~cg.SourceCookbook.nil => (Len(q) > 0 /\ IsHit(q[Len(q)]))

\* the second organization is the first with a source, after the public
\* and the private registry had none
C9_Witness ==
    LET q == Queries IN
    /\ Len(q) = 4
    /\ q[1] = Event("searchSupermarket:community", 0, "absent")
    /\ q[2] = Event("searchSupermarket:private", 0, "absent")
    /\ q[3] = Event("searchGit:orgs", 1, "norepo")
    /\ q[4] = Event("searchGit:orgs", 2, "untagged")
    /\ cg.SourceCookbook.gitConfig = 2
    /\ pc = "done"

\* the public registry lists the name, not the version
VersionUnknownAt(i) == log[i] = Event("searchSupermarket:community", 0, "version-unknown")

GitOps == {"searchGit:forks", "searchGit:orgs"}
GitPos == {k \in 1..Len(log) : log[k].op \in GitOps}

\* the fork search is the tags-only caller of searchGit
TagsOnly(op) == op = "searchGit:forks"

\* what an organization answered is a hit for a search with this flag
GitHit(e) ==
    \/ e.res = "tagged"
    \/ e.res = "untagged" /\ ~TagsOnly(e.op)

\* C11: a version-control search visits the configured organizations in
\* order, starting at the first.  An organization that holds the tag
\* v<version> is a hit with tagged = true; one that holds the repository
\* without the tag is a hit with tagged = false when the search is not
\* tags-only, and no hit when it is tags-only; one without the repository
\* is no hit.  The first hit ends the search, no later organization and no
\* later backend is queried, and the source it produces names that
\* organization and is not a pre-packaged artifact.  After an organization
\* without a hit the next one is queried, if there is one.
C11_GitSearchInOrderFirstHitWins ==
    /\ \A k \in GitPos :
         LET e == log[k] IN
         /\ (k = 1 \/ log[k - 1].op # e.op) => e.n = 1
         /\ (k > 1 /\ log[k - 1].op = e.op) =>
               (e.n = log[k - 1].n + 1 /\ ~GitHit(log[k - 1]))
         /\ GitHit(e) =>
               /\ \A j \in (k + 1)..Len(log) : log[j].op \notin ResolveOps
               /\ ~cg.SourceCookbook.nil
               /\ cg.SourceCookbook.LocationType = "git"
               /\ cg.SourceCookbook.gitConfig = e.n
               /\ cg.SourceCookbook.tagged <=> e.res = "tagged"
               /\ ~cg.SourceCookbook.artifact
         /\ (~GitHit(e) /\ e.res \in {"untagged", "norepo"} /\ k < Len(log)) =>
               \/ log[k + 1].op = e.op /\ log[k + 1].n = e.n + 1
               \/ log[k + 1] = Event("return:validateCookbookStatus", StatusPreconditionFailed, "")
    /\ cg.SourceCookbook.LocationType = "git" =>
         /\ ~cg.SourceCookbook.artifact
         /\ \E k \in GitPos : GitHit(log[k]) /\ log[k].n = cg.SourceCookbook.gitConfig

\* a tags-only search passes an untagged repository and takes the tag of
\* the second organization
C11_Witness ==
    /\ \E k \in GitPos :
         /\ log[k] = Event("searchGit:forks", 1, "untagged")
         /\ k < Len(log)
         /\ log[k + 1] = Event("searchGit:forks", 2, "tagged")
    /\ cg.SourceCookbook.gitConfig = 2
    /\ cg.SourceCookbook.tagged
    /\ ~cg.SourceCookbook.artifact

\* the call behind a backend query failed
QueryFailed(e) ==
    \/ e.res \in {"error", "tagerror"}
    \/ e.res = "linkerror" /\ ~TagsOnly(e.op)

\* source resolution is over, no backend had a source and no call failed
ResolvedNothing ==
    LET q == Queries IN
    /\ Len(q) > 0
    /\ pc \notin {"searchCommunityCookbooks", "searchPrivateCookbooks"}
    /\ \A i \in 1..Len(q) : ~IsHit(q[i]) /\ ~QueryFailed(q[i])

\* C12: when source resolution ends without a hit from any backend and
\* without a failed collaborator call, validateCookbookStatus returns the
\* not-found error with the client-fault status 412, never 502; the
\* request ends there, not forwarded, and no lint check, comparison, tag or
\* publication is in its log.
C12_NotFoundIsClientFault ==
    ResolvedNothing =>
        /\ pc = "done"
        /\ cg.SourceCookbook.nil
        /\ resp.code = StatusPreconditionFailed
        /\ resp.code # StatusBadGateway
        /\ ~resp.forwarded
        /\ \E j \in 2..Len(log) :
              /\ log[j] = Event("return:validateCookbookStatus", StatusPreconditionFailed, "")
              /\ log[j - 1].op \in ResolveOps
              /\ \A i \in (j + 1)..Len(log) : log[i].op = "os.RemoveAll"
        /\ Ops(log) \cap (LintOps \cup {"compareCookbooks", "p.ServeHTTP"} \cup SideEffectOps) = {}

\* neither registry lists the version and the only organization has no
\* repository
C12_Witness ==
    LET q == Queries IN
    /\ ResolvedNothing
    /\ Len(q) = 3
    /\ q[1] = Event("searchSupermarket:community", 0, "absent")
    /\ q[2] = Event("searchSupermarket:private", 0, "version-unknown")
    /\ q[3] = Event("searchGit:orgs", 1, "norepo")
    /\ resp.code = StatusPreconditionFailed

-----------------------------------------------------------------------------
(* Properties of the lint checks (Spec).                                   *)

LintPos == {k \in 1..Len(log) : log[k].op \in LintOps}

\* the source was resolved from a registry
RegistrySource ==
    \E i \in 1..Len(log) :
        log[i].op \in {"searchSupermarket:community", "searchSupermarket:private"}
        /\ log[i].res = "hit"

\* C17: foodcritic and rubocop are run in a request only after a source
\* was resolved that is not a pre-packaged registry artifact (a
\* version-control source); in a request whose source was resolved from a
\* registry no lint tool is run, up to the end of the request.
C17_LintOnlyForNonArtifactSource ==
    /\ LintPos # {} =>
         /\ ~cg.SourceCookbook.nil
         /\ ~cg.SourceCookbook.artifact
         /\ cg.SourceCookbook.LocationType = "git"
         /\ \A k \in LintPos : \E i \in 1..(k - 1) : log[i].op \in GitOps /\ GitHit(log[i])
    /\ RegistrySource =>
         /\ cg.SourceCookbook.artifact
         /\ LintPos = {}
         /\ pc # "executeChecks"
    /\ cg.SourceCookbook.artifact => RegistrySource

\* a registry source compared and forwarded without any lint run
C17_Witness ==
    /\ RegistrySource
    /\ cg.SourceCookbook.artifact
    /\ HasOp("compareCookbooks")
    /\ resp.forwarded
    /\ LintPos = {}


MetricOps == {"metric:forced_bypass", "metric:no_bypass"}

\* the upload was forced and the organization's mode is permissive
Bypass == req.Mode = "permissive" /\ cg.ForcedUpload

\* the position of what the request does after the lint run at k
AfterCheck(k) == IF k < Len(log) /\ log[k + 1].op \in MetricOps THEN k + 2 ELSE k + 1

\* the pipeline went on after the lint run at k
WentOn(k) ==
    IF AfterCheck(k) > Len(log) THEN pc = "compareCookbooks"
    ELSE log[AfterCheck(k)].op \in {"run:rubocop", "compareCookbooks"}

\* the upload failed with the error of the lint run at k
FailedWith(k, code) ==
    /\ AfterCheck(k) <= Len(log)
    /\ log[AfterCheck(k)] = Event("return:validateCookbookStatus", code, "")
    /\ pc = "done" /\ resp.code = code /\ ~resp.forwarded
    /\ \A j \in (k + 1)..Len(log) : log[j].op \notin LintOps \cup {"compareCookbooks"}

\* C18: after a lint check that reports offences the pipeline goes on if
\* and only if the upload was forced and the effective mode is permissive;
\* otherwise the upload fails with the lint error (412).  A lint tool that
\* could not be executed fails the upload with a backend fault whatever
\* the mode and the forced flag are; a clean check lets the pipeline go on.
C18_BypassOnlyForcedAndPermissive ==
    \A k \in LintPos :
        /\ log[k].res = "offences" =>
              /\ WentOn(k) <=> Bypass
              /\ ~Bypass => FailedWith(k, StatusPreconditionFailed)
        /\ log[k].res = "failed" => (FailedWith(k, StatusBadGateway) /\ ~WentOn(k))
        /\ log[k].res = "clean" => WentOn(k)

\* a forced upload in permissive mode: the foodcritic offences are
\* bypassed, the rubocop run that cannot be executed is not
C18_Witness ==
    /\ Bypass
    /\ \E k \in LintPos :
         /\ log[k] = Event("run:foodcritic", 0, "offences")
         /\ WentOn(k)
         /\ AfterCheck(k) <= Len(log)
         /\ log[AfterCheck(k)] = Event("run:rubocop", 0, "failed")
         /\ FailedWith(AfterCheck(k), StatusBadGateway)

MetricPos == {j \in 1..Len(log) : log[j].op \in MetricOps}

\* the lint runs that reported offences
OffencePos == {k \in LintPos : log[k].res = "offences"}

\* the check a lint run belongs to
CheckOf(op) == IF op = "run:foodcritic" THEN "foodcritic" ELSE "rubocop"

-----------------------------------------------------------------------------
(* Properties of tag and publish (Spec).                                   *)

\* tagAndPublishCookbook ran on a version-control source
TaggedAndPublished ==
    HasOp("return:tagAndPublishCookbook") /\ ~cg.SourceCookbook.artifact

PublishFailed == \E j \in Pos("publishCookbook") : log[j].res = "error"

\* C20: after a full validation pass for a version-control source that was
\* not tagged at this version, the tag v<version> is created (or found)
\* before anything is published; when publishing then fails, the tag is
\* deleted again: untagCookbook is called after the failed publish, the
\* caller receives 502 with the publish error, with the note about the
\* untag exactly when the untag failed, and after an untag that succeeded
\* the tag no longer exists.
C20_TagRolledBackWhenPublishFails ==
    TaggedAndPublished =>
        /\ ~cg.SourceCookbook.tagged =>
              /\ Pos("tagCookbook") # {}
              /\ \A j \in Pos("publishCookbook") :
                    \E i \in 1..(j - 1) :
                        log[i].op = "tagCookbook" /\ log[i].res \in {"created", "exists"}
        /\ cg.SourceCookbook.tagged => ~HasOp("tagCookbook") /\ ~HasOp("untagCookbook")
        /\ PublishFailed =>
              /\ resp.code = StatusBadGateway
              /\ "publish" \in tp.errText
              /\ ~cg.SourceCookbook.tagged =>
                    \E j \in Pos("publishCookbook") :
                        j < Len(log) /\ log[j + 1].op = "untagCookbook"
        /\ \A k \in Pos("untagCookbook") :
              /\ PublishFailed
              /\ "untag-note" \in tp.errText <=> log[k].res = "error"
              /\ log[k].res = "ok" => ~tp.tagExists

\* the source resolver found tag v<version> in the source repository
FoundTagged == ~cg.SourceCookbook.nil /\ ~cg.SourceCookbook.artifact /\ cg.SourceCookbook.tagged

\* C21: when the source resolver found tag v<version> already present, the
\* request calls neither tagCookbook nor untagCookbook, at any point and
\* whether publishing succeeds, fails or is not attempted; after
\* tagAndPublishCookbook the tag still exists and was not created by the
\* request.
C21_FoundTagNeitherCreatedNorDeleted ==
    FoundTagged =>
        /\ ~HasOp("tagCookbook")
        /\ ~HasOp("untagCookbook")
        /\ HasOp("return:tagAndPublishCookbook") =>
              /\ tp.tagExists
              /\ ~tp.created
              /\ tp.Type = ""
              /\ "untag-note" \notin tp.errText

\* a private source found tagged, the publication failed
C21_Witness ==
    /\ FoundTagged
    /\ cg.SourceCookbook.private
    /\ PublishFailed
    /\ resp.code = StatusBadGateway
    /\ tp.tagExists

\* the calls of cg.publishCookbook() that sent the cookbook to the registry
Posted == {j \in Pos("publishCookbook") : log[j].res # "blacklisted"}

\* the source is the answer of one of the organization's own
\* version-control locations
PrivateGitSource ==
    LET sc == cg.SourceCookbook IN
    /\ ~sc.nil /\ ~sc.artifact /\ sc.private /\ sc.LocationType = "git"
    /\ \E k \in Pos("searchGit:orgs") : GitHit(log[k]) /\ log[k].n = sc.gitConfig

\* the source is a fork of a community cookbook
ForkSource ==
    \E k \in Pos("searchGit:forks") :
        GitHit(log[k]) /\ log[k].n = cg.SourceCookbook.gitConfig /\ ~cg.SourceCookbook.nil

\* C22: the cookbook is sent to the private registry only in a request
\* whose source was resolved from one of the organization's own
\* version-control locations and whose organization has PublishCookbook
\* set; with a source that is a registry artifact or a fork of a community
\* cookbook cg.publishCookbook() is not even called; and for a blacklisted
\* name the call sends nothing and reports no error.
C22_PublishOnlyPrivateGitSource ==
    /\ Posted # {} => (PrivateGitSource /\ tp.PublishCookbook /\ ~tp.blackListed)
    /\ HasOp("publishCookbook") => (PrivateGitSource /\ tp.PublishCookbook)
    /\ (cg.SourceCookbook.artifact \/ RegistrySource \/ ForkSource) => ~HasOp("publishCookbook")
    /\ tp.blackListed =>
          /\ Posted = {}
          /\ \A j \in Pos("publishCookbook") :
                /\ log[j].res = "blacklisted"
                /\ j < Len(log)
                /\ log[j + 1] = Event("return:tagAndPublishCookbook", 0, "")

\* a source from the organization's second location is published
C22_Witness ==
    /\ PrivateGitSource
    /\ cg.SourceCookbook.gitConfig = 2
    /\ tp.PublishCookbook
    /\ \E j \in Posted : log[j].res = "ok"
    /\ resp.forwarded

-----------------------------------------------------------------------------
(* Properties of the status of a rejected upload (Spec).                   *)

\* the call behind the event failed: a collaborator could not be reached
\* or answered with an error
CollaboratorFailure(e) ==
    \/ e.op \in {"checkCookbookFrozen", "processCookbookFiles", "checkDependencies",
                  "tagCookbook", "publishCookbook"} /\ e.res = "error"
    \/ e.op \in ResolveOps /\ QueryFailed(e)
    \/ e.op \in LintOps /\ e.res = "failed"
    \/ e.op = "compareCookbooks" /\ e.res = "error"

\* the call behind the event found the upload at fault
PolicyViolation(e) ==
    \/ e.op = "checkCookbookFrozen" /\ e.res = "frozen"
    \/ e.op = "checkDependencies" /\ e.res = "unfrozen"
    \/ e.op = "compareCookbooks" /\ e.res \in {"changed", "extra", "missing"}

Rejected == pc = "done" /\ ~resp.forwarded

BackendFault == {StatusBadGateway}

\* C27: a rejected upload carries the status of its cause: the client-fault
\* status after a frozen-overwrite, after changed, extra or missing files,
\* after an unfrozen dependency and after an unresolved source; a
\* backend-fault status, never the client-fault status, after the failure
\* of a collaborator call (Chef server lookup, storage fetch, registry
\* lookup or download, version-control call, lint tool execution, tag,
\* publish).
C27_StatusClassOfEveryOutcome ==
    Rejected =>
        /\ (\E k \in 1..Len(log) : CollaboratorFailure(log[k])) =>
              (resp.code \in BackendFault /\ resp.code \notin ClientFault)
        /\ (\E k \in 1..Len(log) : PolicyViolation(log[k])) => resp.code \in ClientFault
        /\ ResolvedNothing => resp.code \in ClientFault

\* the positions of the failed collaborator calls
FailurePos == {k \in 1..Len(log) : CollaboratorFailure(log[k])}

\* C28: nothing is retried.  After the first failed collaborator call of a
\* request the operation is not attempted again and no validation step is
\* run: what follows is the return of the error (and, after a failed
\* publication, the removal of the tag the request made) and the deferred
\* cleanup; the request ends in the same step, not forwarded, and the
\* backend fault is what the failing call returns.
C28_NoRetryAfterCollaboratorFailure ==
    \A k \in FailurePos :
        /\ \A j \in (k + 1)..Len(log) :
              /\ \/ IsReturn(log[j])
                 \/ log[j].op = "os.RemoveAll"
                 \/ log[j].op = "untagCookbook" /\ log[k].op = "publishCookbook" /\ j = k + 1
              /\ log[j].op # log[k].op
        /\ \E j \in (k + 1)..Len(log) :
              /\ IsReturn(log[j]) /\ log[j].n = StatusBadGateway
              /\ \A i \in (j + 1)..Len(log) : log[i].op = "os.RemoveAll"
        /\ Cardinality(FailurePos) = 1
        /\ pc = "done"
        /\ ~resp.forwarded /\ resp.code # 0
        /\ ~HasOp("p.ServeHTTP")

\* the TagExists call to the second organization fails: no third call,
\* the error is returned
C28_Witness ==
    /\ \E k \in FailurePos :
         /\ k > 1
         /\ log[k - 1] = Event("searchGit:orgs", 1, "norepo")
         /\ log[k] = Event("searchGit:orgs", 2, "tagerror")
         /\ log[k + 1] = Event("return:validateCookbookStatus", StatusBadGateway, "")
    /\ resp.code = StatusBadGateway

-----------------------------------------------------------------------------
(* Properties of the temporary cookbook tree (Spec).                       *)

\* the files under the request's cg.CookbookPath
Tree == {f \in disk : f[1] = CookbookPath(User, CookbookName)}

\* C23: whenever processCookbookFiles has been entered, the tree under
\* cg.CookbookPath no longer exists when the handler has returned: after
\* success, after a failed validation or tag/publish, and after a failure
\* of processCookbookFiles itself.
C23_TreeRemovedOnEveryExit ==
    (pc = "done" /\ HasOp("processCookbookFiles")) => Tree = {}

-----------------------------------------------------------------------------
(* Properties of concurrent uploads (SpecUploads).                         *)

\* request i holds a temporary tree: from its first write to its return
UsesTree(i) == uploads[i].pc \in {"processCookbookFiles", "executeChecks", "return"}

\* C24: two uploads in flight at the same time share no candidate state:
\* while a request uses its temporary tree, the tree holds exactly the
\* files that request wrote (no other request wrote into it or deleted
\* it), and the lint run of a request saw exactly the files the request
\* wrote; this for every pair of users and cookbook names, the same user
\* uploading the same name twice included.
C24_UploadsShareNoTree ==
    \A i \in Requests :
        /\ UsesTree(i) => TreeAt(disk, PathOf(uploads[i])) = uploads[i].wrote
        /\ uploads[i].pc \in {"return", "done"} => uploads[i].linted = uploads[i].wrote

-----------------------------------------------------------------------------
(* Properties of syncedGitUpdate (SpecSync).                               *)

\* goroutine i is inside its commit sequence
InCommit(i) == gitSync.g[i].pc \in {"GetContent", "write"}

\* C25: at every moment and for every repository name at most one
\* syncedGitUpdate is inside its commit sequence for that repository, for
\* all interleavings, the first calls after start-up included.
C25_OneCommitSequencePerRepo ==
    \A i, j \in Goroutines :
        (i # j /\ InCommit(i) /\ InCommit(j)) => gitSync.g[i].Repo # gitSync.g[j].Repo

-----------------------------------------------------------------------------
(* Properties of the configuration reload (SpecReload).                    *)

\* every setting the handler has read so far has the value it has in c
ObservedIn(c) == \A k \in 1..Len(log) : log[k].res = <<log[k].res[1], c[log[k].res[1]]>>

\* C26: a handler running concurrently with loadConfig never observes a
\* mixed configuration: all the settings a request has read are those of
\* the previous configuration or all are those of the new file.
C26_HandlerSeesOneConfiguration ==
    ObservedIn(loader.old) \/ ObservedIn(loader.tmpConfig)

-----------------------------------------------------------------------------
(* Properties of pathspec.GitIgnore (SpecIgnore).                          *)

Ignored == pc = "ignored"

\* the lines whose pattern compiles and matches the name
Matching == {i \in 1..Len(GitIgnoreFile) :
                GitIgnoreFile[i].valid /\ ign.name \in GitIgnoreFile[i].names}
Negated == {i \in Matching : GitIgnoreFile[i].Include}
Plain == Matching \ Negated
Invalid == {i \in 1..Len(GitIgnoreFile) : ~GitIgnoreFile[i].valid}

\* a negated pattern matches the name after every plain pattern that does
NegatedAfterPlain == \E n \in Negated : \A i \in Plain : i < n

\* the scan reaches line n: no pattern before it fails to compile
Reaches(n) == \A i \in Invalid : i > n

\* C29: when the name matches a negated pattern that comes later in the
\* file than every plain pattern it matches, GitIgnore does not report
\* the name as ignored: it returns false without an error, unless a
\* pattern that does not compile stands before the first negated match,
\* and then it returns that error.
C29_LaterNegationNotIgnored ==
    (Ignored /\ NegatedAfterPlain) =>
        /\ ~ign.err => ~ign.ignore
        /\ ign.err <=> \E n \in Negated : (\A m \in Negated : n <= m) /\ ~Reaches(n)

\* two plain matches, then the negated one
C29_Witness ==
    /\ Ignored
    /\ Len(GitIgnoreFile) = 3
    /\ Plain = {1, 2} /\ Negated = {3}
    /\ ~ign.ignore /\ ~ign.err

\* C30: the last matching pattern decides: a name is ignored if and only if
\* at least one pattern matches it and the last pattern that matches it is
\* not negated; a name that matches a negated pattern and a later plain
\* pattern is ignored, a name that matches no pattern is not.
C30_LastMatchDecides ==
    (Ignored /\ Invalid = {}) =>
        /\ ~ign.err
        /\ ign.ignore <=> (Matching # {} /\ \E l \in Plain : \A i \in Matching : i <= l)
        /\ Matching = {} => ~ign.ignore

-----------------------------------------------------------------------------
(* Properties of the dependency check (SpecDeps).                          *)

Checked == pc = "checked"

\* the version checkDependencies is given for a name
VersionOf(name) == dep.parsed[name][1]

WellFormed(version) == ~HasPrefix(version, BAD)
Placeholder(version) ==
    version \in {<<"0", ".", "0", ".", "0">>, BAD \o <<">", "=", " ", "0", ".", "0", ".", "0">>}

\* the names whose version has to be looked up on the Chef server
LookedUp == {name \in DOMAIN dep.parsed :
                WellFormed(VersionOf(name)) /\ ~Placeholder(VersionOf(name))}

LookupsSucceed == \A name \in LookedUp : dep.chef[name] # "error"

\* the looked-up names the Chef server does not report as frozen
Unfrozen == {name \in LookedUp : dep.chef[name] \in {"unfrozen", "notfound"}}

FrozenErrors == {e \in dep.result.errors : e.kind = "frozen"}

\* C13: when every Chef-server lookup succeeds, the 'needs to be frozen'
\* entries of checkDependencies are exactly one per well-formed,
\* non-placeholder name/version that is not frozen upstream, each naming
\* that name and version, whatever the order the map is visited in; with
\* at least one such entry the check fails with 412, and every looked-up
\* name is queried even after an unfrozen one was found.
C13_AllUnfrozenDependenciesReported ==
    (Checked /\ LookupsSucceed) =>
        /\ FrozenErrors = {DepError("frozen", name, VersionOf(name)) : name \in Unfrozen}
        /\ Unfrozen # {} => dep.result.code = StatusPreconditionFailed
        /\ dep.result.code # StatusBadGateway
        /\ dep.result.queries = {DepQuery(name, VersionOf(name)) : name \in LookedUp}

\* two unfrozen dependencies, both reported
C13_Witness ==
    /\ Checked /\ LookupsSucceed
    /\ Unfrozen = {"bar", "baz"}
    /\ dep.chef["bar"] = "unfrozen" /\ dep.chef["baz"] = "notfound"
    /\ Cardinality(FrozenErrors) = 2

Strict == dep.caller = "validateConstraints"

\* the names whose constraint parseCookbookVersions marked malformed
Malformed == {name \in DOMAIN dep.parsed : ~WellFormed(VersionOf(name))}

\* the 'needs to be more specific' entry for a name
SpecificError(name) == DepError("specific", name, VersionOf(name))

Queried(name) == \E q \in dep.result.queries : q.name = name

\* C14 as stated: a malformed constraint yields a 'needs to be more
\* specific' failure if and only if the check is strict.
C14_MalformedFailsIffStrict ==
    (Checked /\ LookupsSucceed) =>
        \A name \in Malformed : SpecificError(name) \in dep.result.errors <=> Strict

\* C14 (amended): when every Chef-server lookup succeeds, a malformed
\* constraint other than the placeholder ">= 0.0.0" yields a 'needs to be
\* more specific' failure, and the check fails with 412, if and only if
\* checkDependencies is called in strict mode; the malformed placeholder
\* yields none in either mode.  The dependency check of a cookbook upload
\* is not strict: there a malformed constraint yields no failure.  In both
\* modes no frozen query is made for a name with a malformed constraint.
C14_MalformedFailsIffStrictButPlaceholder ==
    (Checked /\ LookupsSucceed) =>
        /\ \A name \in Malformed :
             /\ ~Placeholder(VersionOf(name)) =>
                   /\ SpecificError(name) \in dep.result.errors <=> Strict
                   /\ Strict => dep.result.code = StatusPreconditionFailed
             /\ Placeholder(VersionOf(name)) => SpecificError(name) \notin dep.result.errors
             /\ ~Queried(name)
             /\ \A e \in dep.result.errors : e.name = name => e = SpecificError(name)
        /\ dep.caller = "validateCookbookStatus" =>
             \A e \in dep.result.errors : e.kind # "specific"
        /\ \A e \in dep.result.errors : e.kind = "specific" => e.name \in Malformed

\* a strict check of a pessimistic constraint next to the placeholder
C14_Witness ==
    /\ Checked /\ LookupsSucceed
    /\ Strict
    /\ dep.constraints = [name \in DepNames |->
                             IF name = "bar" THEN <<"~", ">", " ", "2", ".", "0", ".", "0">>
                             ELSE <<">", "=", " ", "0", ".", "0", ".", "0">>]
    /\ dep.result.errors = {SpecificError("bar")}
    /\ dep.result.code = StatusPreconditionFailed

\* the names whose version is the placeholder for 'no constraint'
Placeholders == {name \in DOMAIN dep.parsed : Placeholder(VersionOf(name))}

\* C15: a name whose version is the placeholder ("0.0.0", or ">= 0.0.0"
\* which is kept as "BAD>= 0.0.0") has no entry among the failures of
\* checkDependencies, in strict and in non-strict mode, and no frozen
\* query is made for it; a check of placeholders only succeeds without
\* any query.
C15_PlaceholderAlwaysExempt ==
    Checked =>
        /\ \A name \in Placeholders :
             /\ \A e \in dep.result.errors : e.name # name
             /\ ~Queried(name)
        /\ Placeholders = DOMAIN dep.parsed =>
             dep.result = [code |-> 0, errors |-> {}, queries |-> {}]

\* a strict check of both forms of the placeholder, on versions the Chef
\* server does not hold frozen
C15_Witness ==
    /\ Checked /\ Strict
    /\ dep.constraints = [name \in DepNames |->
                             IF name = "bar" THEN <<"=", " ", "0", ".", "0", ".", "0">>
                             ELSE <<">", "=", " ", "0", ".", "0", ".", "0">>]
    /\ dep.chef = [name \in DepNames |-> IF name = "bar" THEN "unfrozen" ELSE "error"]
    /\ Placeholders = DepNames
    /\ dep.result.code = 0

-----------------------------------------------------------------------------
(* Properties of parseCookbookVersions (SpecParse).                        *)

Parsed == pc = "parsed"

\* a non-empty run of digits
Numeric(str) == Len(str) > 0 /\ \A i \in 1..Len(str) : IsDigit(str[i])

\* three numeric components separated by dots
ThreeComponents(str) ==
    \E i, j \in 1..Len(str) :
        /\ i < j /\ str[i] = "." /\ str[j] = "."
        /\ Numeric(SubSeq(str, 1, i - 1))
        /\ Numeric(SubSeq(str, i + 1, j - 1))
        /\ Numeric(SubSeq(str, j + 1, Len(str)))

EqualsPrefixed(str) == Len(str) >= 2 /\ str[1] = "=" /\ str[2] = " "

\* a three-component numeric version, optionally prefixed by "= "
WellFormedConstraint(str) ==
    \/ ThreeComponents(str)
    \/ EqualsPrefixed(str) /\ ThreeComponents(SubSeq(str, 3, Len(str)))

\* the constraint without its "= "
BareVersion(str) == IF EqualsPrefixed(str) THEN SubSeq(str, 3, Len(str)) ELSE str

V123 == <<"1", ".", "2", ".", "3">>

\* C16: parseCookbookVersions yields, for every name, one version: the
\* bare three-component version when the constraint is such a version
\* optionally prefixed by "= ", and otherwise the whole constraint marked
\* malformed with "BAD".  "1.2.3" and "= 1.2.3" both yield 1.2.3;
\* ">=1.2.3" and "~>1.2.3" are marked malformed.
C16_WellFormedIsBareOrEqualsVersion ==
    Parsed =>
        /\ DOMAIN dep.parsed = DOMAIN dep.constraints
        /\ \A name \in DOMAIN dep.constraints :
             LET c == dep.constraints[name] IN
             /\ WellFormedConstraint(c) => dep.parsed[name] = <<BareVersion(c)>>
             /\ ~WellFormedConstraint(c) => dep.parsed[name] = <<BAD \o c>>
             /\ c \in {V123, <<"=", " ">> \o V123} => dep.parsed[name] = <<V123>>
             /\ c \in {<<">", "=">> \o V123, <<"~", ">">> \o V123}
                   => dep.parsed[name] = <<BAD \o c>>

\* "= 1.2.3" parsed to 1.2.3
C16_Witness ==
    /\ Parsed
    /\ dep.constraints["bar"] = <<"=", " ", "1", ".", "2", ".", "3">>
    /\ dep.parsed["bar"] = <<V123>>

-----------------------------------------------------------------------------
(* Properties of the comparison (SpecCompare).                             *)

Compared == pc = "compared"

Candidate == DOMAIN FileHashes
Source == DOMAIN sh

\* the maps agree on every path other than metadata.json
AgreeButManifest ==
    /\ Candidate \ {MetadataJSON} = Source \ {MetadataJSON}
    /\ \A f \in Candidate \ {MetadataJSON} : FileHashes[f] = sh[f]

\* C5: metadata.json is never listed as changed, extra or missing, on
\* whichever side it is present and whatever its hashes are, and two maps
\* that agree on every other path pass the comparison.
C5_ManifestNeverCompared ==
    Compared =>
        /\ MetadataJSON \notin cmp.files
        /\ AgreeButManifest => cmp = CmpOK

C5_Witness ==
    /\ Compared
    /\ MetadataJSON \in Candidate /\ MetadataJSON \in Source
    /\ FileHashes[MetadataJSON] # sh[MetadataJSON]
    /\ <<"a.rb">> \in Candidate
    /\ AgreeButManifest
    /\ cmp = CmpOK

\* C6: maps with the same paths and the same hash per path pass the
\* comparison, whatever the ignore files hold.
C6_IdenticalMapsPass ==
    (Compared /\ FileHashes = sh) => cmp = CmpOK

\* identical maps of three files under an ignore file that does not compile
C6_Witness ==
    /\ Compared
    /\ FileHashes = sh
    /\ Cardinality(Candidate) = 3
    /\ Len(GitIgnoreFile) > 0 /\ ~GitIgnoreFile[1].valid
    /\ cmp = CmpOK

\* the decision of the ignore files (and the default files) on a path
IgnoreDecision(f) == ignoreThisFile(GitIgnoreFile, ChefIgnoreFile, f, TRUE)
IgnoreMatched(f) == IgnoreDecision(f).ignore
IgnoreFails(f) == IgnoreDecision(f).err

ChangedPaths == {f \in (Candidate \cap Source) \ {MetadataJSON} : FileHashes[f] # sh[f]}
OnlyCandidate == (Candidate \ Source) \ {MetadataJSON}
OnlySource == Source \ Candidate
ExtraPaths == {f \in OnlyCandidate : ~IgnoreMatched(f)}
MissingPaths == {f \in OnlySource : ~IgnoreMatched(f)}

\* no ignore decision on a path of one side only fails
IgnoreFilesEvaluate == \A f \in OnlyCandidate \cup OnlySource : ~IgnoreFails(f)

\* C7 as stated: with no changed file, every extra path and every missing
\* path is reported and named by the failure.
C7_ExtraAndMissingAllReported ==
    (Compared /\ ChangedPaths = {} /\ IgnoreFilesEvaluate) =>
        /\ \A f \in ExtraPaths : cmp.code = StatusPreconditionFailed /\ f \in cmp.files
        /\ \A f \in MissingPaths : cmp.code = StatusPreconditionFailed /\ f \in cmp.files
        /\ \A f \in cmp.files : ~IgnoreMatched(f)

\* C7 (amended): with no changed file and ignore files that evaluate: if
\* some candidate path is absent from the source and not ignore-matched,
\* the upload fails with the extra-files error naming exactly those paths
\* (missing paths are not reported then); otherwise, if some source path is
\* absent from the candidate and not ignore-matched, the upload fails with
\* the missing-files error naming exactly those paths; ignore-matched paths
\* are in neither list.
C7_ExtraThenMissingReported ==
    (Compared /\ ChangedPaths = {} /\ IgnoreFilesEvaluate) =>
        /\ ExtraPaths # {} => cmp = CmpFail("extra", ExtraPaths)
        /\ (ExtraPaths = {} /\ MissingPaths # {}) => cmp = CmpFail("missing", MissingPaths)
        /\ (ExtraPaths = {} /\ MissingPaths = {}) => cmp = CmpOK
        /\ \A f \in cmp.files : ~IgnoreMatched(f)

\* an extra and a missing path at once, and an ignore-matched path
C7_Witness ==
    /\ Compared
    /\ ChangedPaths = {} /\ IgnoreFilesEvaluate
    /\ ExtraPaths = {<<"extra.rb">>}
    /\ MissingPaths = {<<"a.rb">>}
    /\ <<"spec", "c.rb">> \in OnlySource
    /\ cmp = CmpFail("extra", {<<"extra.rb">>})

\* C8: a comparison failure reports one class, by priority: the changed
\* files whenever a file is changed, else the extra files whenever there is
\* one, the missing files only when nothing is changed and nothing is
\* extra; each such failure carries the client-fault status.
C8_FailureClassByPriority ==
    Compared =>
        /\ cmp.kind \in {"ok", "changed", "extra", "missing", "error"}
        /\ cmp.kind \in {"changed", "extra", "missing"} <=> cmp.code = StatusPreconditionFailed
        /\ cmp.kind = "changed" => cmp.files = ChangedPaths
        /\ (ChangedPaths # {} /\ cmp.kind # "error") => cmp.kind = "changed"
        /\ cmp.kind = "extra" => (ChangedPaths = {} /\ cmp.files = ExtraPaths /\ ExtraPaths # {})
        /\ cmp.kind = "missing" =>
              /\ ChangedPaths = {}
              /\ \A f \in OnlyCandidate : IgnoreMatched(f)
              /\ cmp.files = MissingPaths /\ MissingPaths # {}
        /\ cmp.kind = "error" => cmp.code = StatusBadGateway /\ \E f \in Paths : IgnoreFails(f)

\* a changed, an extra and a missing path at once
C8_Witness ==
    /\ Compared
    /\ ChangedPaths = {<<"spec", "c.rb">>}
    /\ ExtraPaths = {<<"extra.rb">>}
    /\ MissingPaths = {<<"a.rb">>}
    /\ cmp = CmpFail("changed", {<<"spec", "c.rb">>})

-----------------------------------------------------------------------------
(* The audit trail follows the Chef server (Spec, SpecChange).             *)

\* the Chef server answered the request with success before log[j]
AcceptedBefore(j) == \E i \in 1..(j - 1) : log[i].op = "p.ServeHTTP" /\ log[i].res = "success"

\* C31 as stated: a git commit sequence is started for a cookbook upload or
\* deletion only after the Chef server answered that request with success.
C31_CommitOnlyAfterChefAccepted ==
    \A j \in Pos("go syncedGitUpdate") : AcceptedBefore(j)

-----------------------------------------------------------------------------
(* processChange: the handler of a change of a node, role, environment,    *)
(* data bag or client.  The body is an environment or a role with its      *)
(* cookbook_versions and no run list.                                      *)

ValidateModes == {"silent", "permissive", "enforced"}
ChangeMethods == {"PUT", "POST", "DELETE"}

\* the DevEnvironment of the organization and another environment
DevEnvironment == "dev"
Environments == {"dev", "prod"}
ChefTypes == {"environment", "role"}

\* the cookbook_versions of the body: at most one constraint
ChangeConstraints == {c \in DependencyMaps : DOMAIN c \subseteq {"bar"}}

\* what the round trip to the Chef server ends in: the URL does not parse,
\* the transport fails, the body cannot be read, the status is not 200 or
\* 201, or the status is 200 or 201
RoundTripOutcomes == {"urlerror", "error", "readerror", "rejected", "accepted"}

InitChange ==
    /\ pc = "received"
    /\ req \in [Method : ChangeMethods, ValidateChanges : ValidateModes,
                CommitChanges : BOOLEAN, ChefClient : BOOLEAN,
                ChefType : ChefTypes, Environment : Environments, Valid : BOOLEAN]
    /\ dep \in [caller : {"validateConstraints"}, constraints : ChangeConstraints,
                 chef : {[n \in DepNames |-> a] : a \in ChefAnswers}, parsed : {<<>>},
                 result : {NoDep.result}]
    /\ cfg = [Forks |-> 0]
    /\ cg = NoChefGuard
    /\ log = <<>>
    /\ resp = NoResponse
    /\ FileHashes = EmptyMap
    /\ sh = EmptyMap
    /\ GitIgnoreFile = <<>>
    /\ ChefIgnoreFile = <<>>
    /\ cmp = NoCmp
    /\ tp = NoTagAndPublish
    /\ disk = {}
    /\ uploads = <<>>
    /\ gitSync = NoSync
    /\ loader = NoLoader
    /\ ign = NoIgnore
    /\ repo = NoRepo
    /\ multi = NoMulti
    /\ tagging = NoTagging

\* cg.validateConstraints(body): the error codes it can return, 0 when
\* there is no error; r.Valid says whether the body unmarshals
validateConstraints(r, constraints, chef) ==
    IF ~r.Valid THEN {StatusBadGateway}
    ELSE IF r.ChefType = "environment" /\ r.Environment # DevEnvironment
    THEN {res.code : res \in checkDependencies(parseCookbookVersions(constraints), TRUE, chef)}
    ELSE {0}

\* errorHandler(w, err, status); return
ChangeReturn(status, events) ==
    /\ pc' = "done"
    /\ resp' = [code |-> status, forwarded |-> resp.forwarded]
    /\ log' = log \o events \o <<Event("errorHandler", status, "")>>

\* the step that follows a successful call of processChange
ChangeContinue(next, events) ==
    /\ pc' = next
    /\ resp' = resp
    /\ log' = log \o events

\* newChefGuard(r)
ChangeNewChefGuard ==
    /\ pc = "received"
    /\ \E ok \in BOOLEAN :
         IF ~ok THEN ChangeReturn(StatusBadGateway, <<>>)
         ELSE ChangeContinue("dumpBody", <<>>)
    /\ UNCHANGED <<tagging, multi, repo, ign, loader, gitSync, uploads, disk, dep, tp, req, cfg, cg, FileHashes, sh, GitIgnoreFile, ChefIgnoreFile, cmp>>

\* dumpBody(r)
ChangeDumpBody ==
    /\ pc = "dumpBody"
    /\ \E ok \in BOOLEAN :
         IF ~ok THEN ChangeReturn(StatusBadGateway, <<>>)
         ELSE ChangeContinue("enforced", <<>>)
    /\ UNCHANGED <<tagging, multi, repo, ign, loader, gitSync, uploads, disk, dep, tp, req, cfg, cg, FileHashes, sh, GitIgnoreFile, ChefIgnoreFile, cmp>>

\* ValidateChanges == "enforced" && r.Method != "DELETE": validateConstraints
\* before anything is passed on
ValidateEnforced ==
    /\ pc = "enforced"
    /\ IF req.ValidateChanges = "enforced" /\ req.Method # "DELETE"
       THEN \E errCode \in validateConstraints(req, dep.constraints, dep.chef) :
               IF errCode # 0
               THEN ChangeReturn(errCode, <<Event("validateConstraints", errCode, "enforced")>>)
               ELSE ChangeContinue("commit", <<Event("validateConstraints", 0, "enforced")>>)
       ELSE ChangeContinue("commit", <<>>)
    /\ UNCHANGED <<tagging, multi, repo, ign, loader, gitSync, uploads, disk, dep, tp, req, cfg, cg, FileHashes, sh, GitIgnoreFile, ChefIgnoreFile, cmp>>

\* CommitChanges == false, or a Chef client updating itself: p.ServeHTTP and
\* return
ChangePassThrough ==
    /\ pc = "commit"
    /\ ~req.CommitChanges \/ req.ChefClient
    /\ pc' = "done"
    /\ resp' = [code |-> 0, forwarded |-> TRUE]
    /\ \E answer \in ProxyAnswers :
         log' = Append(log, Event("p.ServeHTTP", 0, answer))
    /\ UNCHANGED <<tagging, multi, repo, ign, loader, gitSync, uploads, disk, dep, tp, req, cfg, cg, FileHashes, sh, GitIgnoreFile, ChefIgnoreFile, cmp>>

\* url.Parse, http.DefaultTransport.RoundTrip(r), ioutil.ReadAll and
\* checkHTTPResponse(resp, {200, 201})
RoundTrip ==
    /\ pc = "commit"
    /\ req.CommitChanges /\ ~req.ChefClient
    /\ \E outcome \in RoundTripOutcomes :
         LET ev == <<Event("RoundTrip", 0, outcome)>> IN
         CASE outcome = "urlerror" -> ChangeReturn(StatusBadGateway, <<>>)
           [] outcome = "error" ->
                /\ pc' = "done"
                /\ resp' = [code |-> StatusBadGateway, forwarded |-> TRUE]
                /\ log' = log \o ev \o <<Event("errorHandler", StatusBadGateway, "")>>
           [] outcome = "readerror" ->
                /\ pc' = "done"
                /\ resp' = [code |-> StatusBadGateway, forwarded |-> TRUE]
                /\ log' = log \o ev \o <<Event("errorHandler", StatusBadGateway, "")>>
           [] outcome = "rejected" ->
                /\ pc' = "done"
                /\ resp' = [code |-> 0, forwarded |-> TRUE]
                /\ log' = log \o ev \o <<Event("errorHandler", 0, "resp.StatusCode")>>
           [] outcome = "accepted" ->
                /\ pc' = "getChangeDetails"
                /\ resp' = [code |-> 0, forwarded |-> TRUE]
                /\ log' = log \o ev
    /\ UNCHANGED <<tagging, multi, repo, ign, loader, gitSync, uploads, disk, dep, tp, req, cfg, cg, FileHashes, sh, GitIgnoreFile, ChefIgnoreFile, cmp>>

\* getChangeDetails(r, reqBody), then go cg.syncedGitUpdate(r.Method, ...)
GetChangeDetails ==
    /\ pc = "getChangeDetails"
    /\ \E ok \in BOOLEAN :
         IF ~ok THEN ChangeReturn(StatusBadGateway, <<>>)
         ELSE ChangeContinue("permissive", <<Event("go syncedGitUpdate", 0, req.Method)>>)
    /\ UNCHANGED <<tagging, multi, repo, ign, loader, gitSync, uploads, disk, dep, tp, req, cfg, cg, FileHashes, sh, GitIgnoreFile, ChefIgnoreFile, cmp>>

\* ValidateChanges == "permissive" && r.Method != "DELETE": validateConstraints
\* after the change was saved; then the Chef server's answer is written
ValidatePermissive ==
    /\ pc = "permissive"
    /\ IF req.ValidateChanges = "permissive" /\ req.Method # "DELETE"
       THEN \E errCode \in validateConstraints(req, dep.constraints, dep.chef) :
               IF errCode # 0
               THEN ChangeReturn(errCode, <<Event("validateConstraints", errCode, "permissive")>>)
               ELSE ChangeContinue("done", <<Event("validateConstraints", 0, "permissive"),
                                             Event("w.Write", 0, "")>>)
       ELSE ChangeContinue("done", <<Event("w.Write", 0, "")>>)
    /\ UNCHANGED <<tagging, multi, repo, ign, loader, gitSync, uploads, disk, dep, tp, req, cfg, cg, FileHashes, sh, GitIgnoreFile, ChefIgnoreFile, cmp>>

NextChange ==
    \/ ChangeNewChefGuard
    \/ ChangeDumpBody
    \/ ValidateEnforced
    \/ ChangePassThrough
    \/ RoundTrip
    \/ GetChangeDetails
    \/ ValidatePermissive

SpecChange == InitChange /\ [][NextChange]_vars

\* the change of the request has constraint violations: the body
\* unmarshals and validateConstraints answers it with the client-fault
\* status
HasConstraintViolations ==
    /\ req.Method # "DELETE"
    /\ validateConstraints(req, dep.constraints, dep.chef) = {StatusPreconditionFailed}

\* the violation was reported to the caller
ViolationReported ==
    /\ resp.code = StatusPreconditionFailed
    /\ log[Len(log)] = Event("errorHandler", StatusPreconditionFailed, "")

\* the calls that hand the change to the Chef server
ForwardOps == {"p.ServeHTTP", "RoundTrip"}

\* the change was handed to the Chef server, which saved it
Saved == \E i \in 1..Len(log) : log[i].op \in ForwardOps /\ log[i].res \in {"success", "accepted"}

\* validateConstraints was reached and found the violation
Validated ==
    \E i \in 1..Len(log) : log[i].op = "validateConstraints" /\ log[i].n = StatusPreconditionFailed

\* C34 as stated: a non-DELETE change with constraint violations is, under
\* 'enforced', answered with the violation once the validation is reached
\* and neither forwarded nor committed; under 'permissive' a change that
\* the Chef server saved has its violation reported to the caller, after
\* the change was forwarded.
C34_EnforcedBlocksPermissiveReports ==
    (pc = "done" /\ HasConstraintViolations) =>
        /\ req.ValidateChanges = "enforced" =>
              /\ Ops(log) \cap (ForwardOps \cup {"go syncedGitUpdate"}) = {}
              /\ Validated => ViolationReported
        /\ (req.ValidateChanges = "permissive" /\ Saved) =>
              /\ ViolationReported
              /\ \A i \in 1..Len(log) : log[i].op = "validateConstraints" =>
                     \E k \in 1..(i - 1) : log[k].op \in ForwardOps

-----------------------------------------------------------------------------
(* syncedGitUpdate past the lock: remarshalConfig, writeConfigToGit and    *)
(* mailChanges.  A text is the form it is written in, the attributes it    *)
(* holds and whether it has the key "automatic".                           *)

GitActions == {"PUT", "POST", "DELETE"}
Attrs == {"a1", "a2"}

\* what a client sends: JSON as the client wrote it, or no JSON at all
GitBodies == [valid : BOOLEAN, attrs : Attrs, automatic : BOOLEAN]

\* what a file in the repository holds: indented JSON with a final
\* newline, or a body as sent with a final newline
Contents == [form : {"indented\n", "raw\n"}, attrs : Attrs, automatic : BOOLEAN]

\* what GetContent finds at the path: nothing, a directory or a file
Targets == {[kind |-> "none"], [kind |-> "dir"]} \cup {[kind |-> "file", Content |-> c] : c \in Contents}

\* remarshalConfig(action, data)
remarshalConfig(action, data) ==
    IF action = "DELETE"
    THEN [err |-> FALSE,
          config |-> [form |-> "raw\n", attrs |-> data.attrs, automatic |-> data.automatic]]
    ELSE IF ~data.valid THEN [err |-> TRUE, config |-> <<>>]
    ELSE [err |-> FALSE,
          config |-> [form |-> "indented\n", attrs |-> data.attrs, automatic |-> FALSE]]

\* the call that writes, and what writeConfigToGit returns with it
GitWriteCall(op, ok) ==
    [calls |-> <<Event("GetContent", 0, ""), Event(op, 0, IF ok THEN "" ELSE "error")>>,
     sha |-> IF ok THEN "sha" ELSE "", err |-> ~ok]

\* writeConfigToGit returns without a call that writes
GitNoWrite(err) == [calls |-> <<Event("GetContent", 0, "")>>, sha |-> "", err |-> err]

\* writeConfigToGit without the comparison of the content
writeConfigToGitAlwaysUpdate(action, config, target, client, getok, writeok) ==
    IF ~client THEN [calls |-> <<>>, sha |-> "", err |-> TRUE]
    ELSE IF ~getok
    THEN [calls |-> <<Event("GetContent", 0, "error")>>, sha |-> "", err |-> TRUE]
    ELSE IF target.kind = "none"
    THEN IF action = "DELETE" THEN GitNoWrite(TRUE) ELSE GitWriteCall("CreateFile", writeok)
    ELSE IF target.kind = "file"
    THEN IF action = "DELETE" THEN GitWriteCall("DeleteFile", writeok)
         ELSE GitWriteCall("UpdateFile", writeok)
    ELSE IF action = "DELETE"
    THEN [GitWriteCall("DeleteDirectory", writeok) EXCEPT !.sha = "master"]
    ELSE GitNoWrite(TRUE)

\* cg.writeConfigToGit(action, config): the calls it makes and what it
\* returns; client, getok and writeok say which calls succeed
writeConfigToGit(action, config, target, client, getok, writeok) ==
    IF ~client THEN [calls |-> <<>>, sha |-> "", err |-> TRUE]
    ELSE IF ~getok
    THEN [calls |-> <<Event("GetContent", 0, "error")>>, sha |-> "", err |-> TRUE]
    ELSE IF target.kind = "none"
    THEN IF action = "DELETE" THEN GitNoWrite(TRUE) ELSE GitWriteCall("CreateFile", writeok)
    ELSE IF target.kind = "file"
    THEN IF action = "DELETE" THEN GitWriteCall("DeleteFile", writeok)
         ELSE IF target.Content = config THEN GitNoWrite(FALSE)
         ELSE GitWriteCall("UpdateFile", writeok)
    ELSE IF action = "DELETE"
    THEN [GitWriteCall("DeleteDirectory", writeok) EXCEPT !.sha = "master"]
    ELSE GitNoWrite(TRUE)

InitGit ==
    /\ pc = "remarshalConfig"
    /\ repo \in [action : GitActions, body : GitBodies, target : Targets, MailChanges : BOOLEAN,
                  config : {<<>>}, sha : {""}, err : {FALSE}]
    /\ multi = NoMulti
    /\ tagging = NoTagging
    /\ ign = NoIgnore
    /\ loader = NoLoader
    /\ gitSync = NoSync
    /\ uploads = <<>>
    /\ disk = {}
    /\ req = NoRequest
    /\ cfg = [Forks |-> 0]
    /\ cg = NoChefGuard
    /\ log = <<>>
    /\ resp = NoResponse
    /\ FileHashes = EmptyMap
    /\ sh = EmptyMap
    /\ GitIgnoreFile = <<>>
    /\ ChefIgnoreFile = <<>>
    /\ cmp = NoCmp
    /\ tp = NoTagAndPublish
    /\ dep = NoDep

\* config, err := remarshalConfig(action, body)
GitRemarshal ==
    /\ pc = "remarshalConfig"
    /\ LET r == remarshalConfig(repo.action, repo.body) IN
         /\ repo' = [repo EXCEPT !.config = r.config, !.err = r.err]
         /\ pc' = IF r.err THEN "done" ELSE "writeConfigToGit"
    /\ UNCHANGED <<tagging, multi, ign, loader, gitSync, uploads, disk, dep, tp, req, cfg, cg, log, resp, FileHashes, sh, GitIgnoreFile, ChefIgnoreFile, cmp>>

\* sha, err := cg.writeConfigToGit(action, config)
GitWrite ==
    /\ pc = "writeConfigToGit"
    /\ \E client \in BOOLEAN, getok \in BOOLEAN, writeok \in BOOLEAN :
         LET r == writeConfigToGit(repo.action, repo.config, repo.target, client, getok, writeok) IN
         /\ repo' = [repo EXCEPT !.sha = r.sha, !.err = r.err]
         /\ log' = log \o r.calls
         /\ pc' = IF r.err THEN "done" ELSE "mailChanges"
    /\ UNCHANGED <<tagging, multi, ign, loader, gitSync, uploads, disk, dep, tp, req, cfg, cg, resp, FileHashes, sh, GitIgnoreFile, ChefIgnoreFile, cmp>>

\* if sha != "" { cg.mailChanges(...) }: getDiff and mailDiff when
\* MailChanges is set
GitMail ==
    /\ pc = "mailChanges"
    /\ \E diffok \in BOOLEAN, mailok \in BOOLEAN :
         log' = log \o
                (IF repo.sha = "" THEN <<>>
                 ELSE <<Event("mailChanges", 0, repo.sha)>> \o
                      (IF ~repo.MailChanges THEN <<>>
                       ELSE IF ~diffok THEN <<Event("GetDiff", 0, "error")>>
                       ELSE <<Event("GetDiff", 0, ""),
                              Event("mailDiff", 0, IF mailok THEN "" ELSE "error")>>))
    /\ pc' = "done"
    /\ UNCHANGED <<tagging, multi, repo, ign, loader, gitSync, uploads, disk, dep, tp, req, cfg, cg, resp, FileHashes, sh, GitIgnoreFile, ChefIgnoreFile, cmp>>

NextGit == GitRemarshal \/ GitWrite \/ GitMail

SpecGit == InitGit /\ [][NextGit]_vars

-----------------------------------------------------------------------------
(* Properties of the commit sequence (SpecGit).                            *)

WriteOps == {"CreateFile", "UpdateFile", "DeleteFile", "DeleteDirectory"}
MailOps == {"mailChanges", "GetDiff", "mailDiff"}

\* the target file exists with content equal to the new configuration, and
\* writeConfigToGit has got the answer of GetContent
Unchanged ==
    /\ \E i \in 1..Len(log) : log[i] = Event("GetContent", 0, "")
    /\ repo.target.kind = "file"
    /\ repo.config = repo.target.Content

\* no commit and no mail
NoCommitNoMail ==
    /\ Ops(log) \cap (WriteOps \cup MailOps) = {}
    /\ repo.sha = ""
    /\ ~repo.err

\* C32 as stated: when the target file exists with content equal to the
\* new configuration, writeConfigToGit issues no create, update or delete
\* call and returns an empty commit reference, and no mail is sent.
C32_UnchangedNoCommitNoMail ==
    Unchanged => NoCommitNoMail

\* C32 (amended): for an action other than DELETE, when the target file
\* exists with content equal to the new configuration, writeConfigToGit
\* issues no create, update or delete call and returns an empty commit
\* reference, and syncedGitUpdate then sends no notification mail.
C32_UnchangedNoCommitNoMailUnlessDelete ==
    (Unchanged /\ repo.action # "DELETE") => NoCommitNoMail

\* a PUT of the configuration the file holds already has run to its end
C32_Witness ==
    /\ pc = "done"
    /\ Unchanged /\ repo.action = "PUT"
    /\ repo.body.automatic /\ repo.MailChanges
    /\ NoCommitNoMail

-----------------------------------------------------------------------------
(* MultiSyncer on its own: goroutines that call Lock(token), then          *)
(* Unlock(token).  The run loop keeps a channel of capacity 1 per token    *)
(* and starts a goroutine per command, so it never waits itself.           *)

LockCallers == {1, 2, 3}
Tokens == {"t1", "t2"}

\* a send on a channel that never fills
SendReadyUnbounded(m, token) == TRUE

\* l <- struct{}{} can proceed: the channel of capacity 1 is empty
SendReady(m, token) == token \notin m.full

\* <-l can proceed: the channel holds its element
ReceiveReady(m, token) == token \in m.full

InitMulti ==
    /\ multi \in [store : {{}}, full : {{}},
                   c : [LockCallers -> [token : Tokens, pc : {"start"}, ok : {FALSE}]]]
    /\ tagging = NoTagging
    /\ pc = "multi"
    /\ repo = NoRepo
    /\ ign = NoIgnore
    /\ loader = NoLoader
    /\ gitSync = NoSync
    /\ uploads = <<>>
    /\ disk = {}
    /\ req = NoRequest
    /\ cfg = [Forks |-> 0]
    /\ cg = NoChefGuard
    /\ log = <<>>
    /\ resp = NoResponse
    /\ FileHashes = EmptyMap
    /\ sh = EmptyMap
    /\ GitIgnoreFile = <<>>
    /\ ChefIgnoreFile = <<>>
    /\ cmp = NoCmp
    /\ tp = NoTagAndPublish
    /\ dep = NoDep

\* Lock: s <- cmdData{lock, token, done}; run receives the command and
\* makes the channel of the token if the store has none
MultiLock(i) ==
    /\ multi.c[i].pc = "start"
    /\ multi' = [multi EXCEPT !.store = @ \cup {multi.c[i].token}, !.c[i].pc = "locking"]

\* the goroutine of the lock command: l <- struct{}{}, then cmd.done, and
\* Lock returns
MultiLockReturns(i) ==
    /\ multi.c[i].pc = "locking"
    /\ SendReady(multi, multi.c[i].token)
    /\ multi' = [multi EXCEPT !.full = @ \cup {multi.c[i].token}, !.c[i].pc = "held"]

\* Unlock: s <- cmdData{unlock, token, done}; run looks the token up (ok)
MultiUnlock(i) ==
    /\ multi.c[i].pc = "held"
    /\ multi' = [multi EXCEPT !.c[i].ok = multi.c[i].token \in multi.store,
                               !.c[i].pc = "unlocking"]

\* the goroutine of the unlock command: if ok { <-l }, then cmd.done, and
\* Unlock returns
MultiUnlockReturns(i) ==
    /\ multi.c[i].pc = "unlocking"
    /\ multi.c[i].ok => ReceiveReady(multi, multi.c[i].token)
    /\ multi' = [multi EXCEPT !.full = IF multi.c[i].ok THEN @ \ {multi.c[i].token} ELSE @,
                               !.c[i].pc = "done"]

NextMulti ==
    \E i \in LockCallers :
        /\ \/ MultiLock(i)
           \/ MultiLockReturns(i)
           \/ MultiUnlock(i)
           \/ MultiUnlockReturns(i)
        /\ UNCHANGED <<pc, req, cfg, cg, log, resp, FileHashes, sh, GitIgnoreFile,
                       ChefIgnoreFile, cmp, dep, tp, disk, uploads, gitSync, loader, ign, repo, tagging>>

\* the Go scheduler runs every goroutine that can take a step
SpecMulti == InitMulti /\ [][NextMulti]_vars /\ WF_vars(NextMulti)

-----------------------------------------------------------------------------
(* Properties of MultiSyncer (SpecMulti).                                  *)

\* Lock(token) has returned to caller i and its Unlock has not returned
Holds(i) == multi.c[i].pc \in {"held", "unlocking"}

\* caller i is inside Lock and its command cannot proceed
WaitsInLock(i) == multi.c[i].pc = "locking" /\ ~SendReady(multi, multi.c[i].token)

\* no two callers hold the same token
MultiMutualExclusion ==
    \A i, j \in LockCallers : (i # j /\ Holds(i) /\ Holds(j)) => multi.c[i].token # multi.c[j].token

\* a Lock waits for a holder of its own token only
MultiWaitsForOwnTokenOnly ==
    \A i \in LockCallers :
        WaitsInLock(i) => \E j \in LockCallers \ {i} : Holds(j) /\ multi.c[j].token = multi.c[i].token

\* every caller got the token and gave it back
MultiAllDone == \A i \in LockCallers : multi.c[i].pc = "done"

\* C33: between a Lock(token) returning and the matching Unlock(token) no
\* other Lock(token) returns; a Lock never waits for a holder of another
\* token; and, every holder calling Unlock, every waiting Lock returns in
\* the end: all callers get through.
C33_MutualExclusionPerTokenNoDeadlock ==
    /\ []MultiMutualExclusion
    /\ []MultiWaitsForOwnTokenOnly
    /\ <>[]MultiAllDone

\* one caller holds t1 while another waits for it and the third holds t2
C33_Witness ==
    /\ Holds(1) /\ multi.c[1].token = "t1"
    /\ WaitsInLock(2) /\ multi.c[2].token = "t1"
    /\ Holds(3) /\ multi.c[3].token = "t2"

-----------------------------------------------------------------------------
(* Properties of syncedGitUpdate under fair scheduling (SpecSyncFair).     *)

\* syncedGitUpdate of goroutine i has returned, its deferred Unlock included
SyncDone(i) == gitSync.g[i].pc = "done"

\* the lock goroutine i took is free again, or another goroutine took it
\* after i gave it back
Released(i) ==
    LET l == <<gitSync.g[i].lock, gitSync.g[i].Repo>> IN
    l \in gitSync.full =>
        \E j \in Goroutines \ {i} :
            /\ gitSync.g[j].pc \in {"defer", "GetContent", "write", "unlock"}
            /\ <<gitSync.g[j].lock, gitSync.g[j].Repo>> = l

\* C40: every syncedGitUpdate that has returned has released the lock it
\* took, and every syncedGitUpdate acquires the lock of its repository
\* and completes.
C40_LockReleasedAllComplete ==
    /\ [](\A i \in Goroutines : SyncDone(i) => Released(i))
    /\ <>[](\A i \in Goroutines : SyncDone(i))

-----------------------------------------------------------------------------
(* Properties of a failed reload (SpecReload).                             *)

\* the reload attempt returned an error
ReloadFailed == loader.pc = "failed" /\ loader.failed \in LoadSteps

\* C39: after a reload that failed in any step, the global configuration
\* is the one in force before the attempt and the handler reads only that
\* one; the configuration differs from the previous one only after every
\* step has passed on the newly read configuration.
C39_FailedReloadKeepsConfiguration ==
    /\ ReloadFailed => (cfg = loader.old /\ ObservedIn(loader.old))
    /\ cfg # loader.old => (loader.pc \in {"copy", "loaded"} /\ loader.failed = "")

\* a file with other settings failed its last verification, and a request
\* was served to its end
C39_Witness ==
    /\ ReloadFailed /\ loader.failed = "verifyBlackLists"
    /\ loader.tmpConfig.Mode # cfg.Mode
    /\ loader.tmpConfig.CommitChanges # cfg.CommitChanges
    /\ pc = "done" /\ Len(log) >= 2

-----------------------------------------------------------------------------
(* A version the public registry does not have (Spec).                     *)

\* the public registry answered that it lists the name, not the version
VersionUnknown == \E i \in 1..Len(log) : VersionUnknownAt(i)

\* the organization's own locations: the private registry and the
\* version-control organizations
PrivateOps == {"searchSupermarket:private", "searchGit:orgs"}

\* the source is a tagged fork
ForkHit ==
    LET sc == cg.SourceCookbook IN
    /\ ~sc.nil /\ ~sc.artifact /\ ~sc.private /\ sc.tagged
    /\ \E k \in Pos("searchGit:forks") : log[k].n = sc.gitConfig /\ log[k].res = "tagged"

\* the resolution ended with status code
ResolutionFailed(code) ==
    /\ cg.SourceCookbook.nil
    /\ pc = "done" /\ resp.code = code
    /\ \E j \in 2..Len(log) :
         /\ log[j] = Event("return:validateCookbookStatus", code, "")
         /\ log[j - 1].op \in {"searchSupermarket:community", "searchGit:forks"}

\* a query of a fork location failed (the fork search asks for the tag
\* only)
ForkQueryFailed == \E k \in Pos("searchGit:forks") : log[k].res = "tagerror"

\* C36 as stated: when the public registry knows the name but not the
\* version, resolution ends with a fork hit or a client-fault error, and
\* the private registry and the organization's version-control locations
\* are never consulted.
C36_VersionUnknownForkHitOrClientFault ==
    VersionUnknown =>
        /\ Ops(log) \cap PrivateOps = {}
        /\ ForkHit \/ ResolutionFailed(StatusPreconditionFailed)

\* C36 (amended): when the public registry knows the name but not the
\* version, resolution ends with a fork hit, with a client-fault error, or
\* with a backend-fault error when a query of a fork location fails, and
\* the private registry and the organization's version-control locations
\* are never consulted.
C36_VersionUnknownNeverPrivate ==
    VersionUnknown =>
        /\ Ops(log) \cap PrivateOps = {}
        /\ \/ ForkHit
           \/ ResolutionFailed(StatusPreconditionFailed) /\ ~ForkQueryFailed
           \/ ResolutionFailed(StatusBadGateway) /\ ForkQueryFailed

\* the version is unknown, two forks are asked and neither has the tag
C36_Witness ==
    /\ VersionUnknown
    /\ cfg.Forks = 2
    /\ Cardinality(Pos("searchGit:forks")) = 2
    /\ ResolutionFailed(StatusPreconditionFailed)

-----------------------------------------------------------------------------
(* The ignore files of the source and of the candidate.                    *)

\* the comparison ran to a verdict and the source bundle brought a
\* .gitignore that differs from the one uploaded with the candidate
SourceGitIgnoreLeads ==
    /\ HasOp("compareCookbooks")
    /\ cmp # CmpError
    /\ GitIgnoreFile # cg.Cookbook.gitignore

\* the hashes of the candidate had it been uploaded without its .gitignore
HashesWithoutOwnGitIgnore ==
    processCookbookFiles([cg.Cookbook EXCEPT !.gitignore = <<>>], 2).FileHashes

-----------------------------------------------------------------------------
(* Dependencies the Chef server does not know, and lookups that fail.      *)

\* the looked-up names the Chef server reports as not found
NotFound == {name \in LookedUp : dep.chef[name] = "notfound"}

\* C38: a looked-up dependency the Chef server does not know (not found,
\* no error) is handled as not frozen: when no lookup fails, the check
\* ends with 412 and a 'needs to be frozen' entry for it; when a lookup
\* fails, the check ends with 502 and carries none of the failures
\* collected before the failed lookup.
C38_NotFoundIsUnfrozenErrorAborts ==
    Checked =>
        /\ LookupsSucceed =>
              \A name \in NotFound :
                  /\ DepError("frozen", name, VersionOf(name)) \in dep.result.errors
                  /\ dep.result.code = StatusPreconditionFailed
        /\ ~LookupsSucceed =>
              /\ dep.result.code = StatusBadGateway
              /\ dep.result.errors = {}

\* bar is not found and was looked up, then the lookup of baz failed: the
\* check ends with 502
C38_Witness ==
    /\ Checked
    /\ LookedUp = {"bar", "baz"}
    /\ dep.chef["bar"] = "notfound" /\ dep.chef["baz"] = "error"
    /\ DepQuery("bar", VersionOf("bar")) \in dep.result.queries
    /\ dep.result.code = StatusBadGateway

-----------------------------------------------------------------------------
(* Uploads of the same cookbook version that tag and publish at the same   *)
(* time.  Every call of the Git interface is one step; tagging.exists is   *)
(* tag v<version> in the source repository, tagging.owner who created it.  *)

\* the requests in flight, and a user who pushes the tag by hand
Taggers == {1, 2}
GitUser == 3

InitTag ==
    /\ tagging \in [Type : GitTypes, exists : {FALSE}, owner : {0}, pushed : {FALSE},
                    r : [Taggers -> [pc : {"searchGit"}, tagged : {FALSE},
                                     publish : BOOLEAN, created : {FALSE},
                                     deleted : {0}, code : {0}]]]
    /\ pc = "tagging"
    /\ multi = NoMulti
    /\ repo = NoRepo
    /\ ign = NoIgnore
    /\ loader = NoLoader
    /\ gitSync = NoSync
    /\ uploads = <<>>
    /\ disk = {}
    /\ req = NoRequest
    /\ cfg = [Forks |-> 0]
    /\ cg = NoChefGuard
    /\ log = <<>>
    /\ resp = NoResponse
    /\ FileHashes = EmptyMap
    /\ sh = EmptyMap
    /\ GitIgnoreFile = <<>>
    /\ ChefIgnoreFile = <<>>
    /\ cmp = NoCmp
    /\ tp = NoTagAndPublish
    /\ dep = NoDep

\* the request ends with this code
TagDone(i, code) == [tagging EXCEPT !.r[i].pc = "done", !.r[i].code = code]

\* searchGit: the source is found and TagExists fills sc.tagged, or the
\* search fails; a source found tagged goes on without tagCookbook
TagSearchGit(i) ==
    /\ tagging.r[i].pc = "searchGit"
    /\ \E ok \in BOOLEAN :
         tagging' = IF ~ok THEN TagDone(i, StatusBadGateway)
                    ELSE [tagging EXCEPT !.r[i].tagged = tagging.exists,
                                         !.r[i].pc = IF tagging.exists THEN "publishCookbook"
                                                     ELSE "TagExists"]

\* tagCookbook: gitClient.TagExists; a tag that is there ends tagCookbook
\* with nil
TagCookbookTagExists(i) ==
    /\ tagging.r[i].pc = "TagExists"
    /\ \E ok \in BOOLEAN :
         tagging' = IF ~ok THEN TagDone(i, StatusBadGateway)
                    ELSE [tagging EXCEPT !.r[i].pc = IF tagging.exists THEN "publishCookbook"
                                                     ELSE "TagRepo"]

\* tagCookbook: gitClient.TagRepo; the reference cannot be created when it
\* is there already
TagCookbookTagRepo(i) ==
    /\ tagging.r[i].pc = "TagRepo"
    /\ \E ok \in BOOLEAN :
         tagging' = IF ~ok \/ tagging.exists THEN TagDone(i, StatusBadGateway)
                    ELSE [tagging EXCEPT !.exists = TRUE, !.owner = i,
                                         !.r[i].created = TRUE,
                                         !.r[i].pc = "publishCookbook"]

\* tagAndPublishCookbook: cg.publishCookbook() when PublishCookbook is set
\* and the source is private; after a failure the tag is removed unless
\* the source was found tagged
TagPublishCookbook(i) ==
    /\ tagging.r[i].pc = "publishCookbook"
    /\ \E answer \in PublishAnswers :
         LET p == publishCookbook(FALSE, answer) IN
         tagging' = IF ~tagging.r[i].publish \/ ~p.err THEN TagDone(i, 0)
                    ELSE IF ~tagging.r[i].tagged
                    THEN [tagging EXCEPT !.r[i].pc = "untagCookbook"]
                    ELSE TagDone(i, StatusBadGateway)

\* tagAndPublishCookbook: untagCookbook; deleted is the creator of the tag
\* the call removed
TagUntagCookbook(i) ==
    /\ tagging.r[i].pc = "untagCookbook"
    /\ \E answer \in CallAnswers :
         LET u == untagCookbook(tagging.Type, IF tagging.exists THEN answer ELSE "error")
             t == TagDone(i, StatusBadGateway)
         IN tagging' = IF u.deleted
                       THEN [t EXCEPT !.exists = FALSE, !.owner = 0,
                                      !.r[i].deleted = tagging.owner]
                       ELSE t

\* a user pushes tag v<version> to the source repository, once
UserTagsRepo ==
    /\ ~tagging.pushed
    /\ ~tagging.exists
    /\ tagging' = [tagging EXCEPT !.exists = TRUE, !.owner = GitUser, !.pushed = TRUE]

NextTag ==
    /\ \/ \E i \in Taggers :
             \/ TagSearchGit(i)
             \/ TagCookbookTagExists(i)
             \/ TagCookbookTagRepo(i)
             \/ TagPublishCookbook(i)
             \/ TagUntagCookbook(i)
       \/ UserTagsRepo
    /\ UNCHANGED <<pc, req, cfg, cg, log, resp, FileHashes, sh, GitIgnoreFile,
                   ChefIgnoreFile, cmp, dep, tp, disk, uploads, gitSync, loader, ign, repo,
                   multi>>

SpecTag == InitTag /\ [][NextTag]_vars

\* C35: in every interleaving of the uploads of one cookbook version, the
\* tag a request deletes in its rollback is a tag the same request created
\* with its own TagRepo call, never the tag of another request or of a
\* user.
C35_UntagOnlyOwnTag ==
    \A i \in Taggers :
        tagging.r[i].deleted # 0 =>
            tagging.r[i].deleted = i /\ tagging.r[i].created

====
